---- MODULE Spec2Model ----
(***************************************************************************)
(* The feed analysis pipeline of iOS.Blogs.Analyzer: analyzeFeeds          *)
(* (src/analyzer.ts) driving asyncPool (src/utils.ts) over a list of feed  *)
(* URLs.  One behaviour of Spec is one call of analyzeFeeds; every action  *)
(* is one synchronous stretch of JavaScript between two suspension points  *)
(* (the run-to-completion rule of the event loop).                         *)
(***************************************************************************)
EXTENDS Integers, Sequences, FiniteSets, TLC

VARIABLES
    feedUrls,      \* the feedUrls argument
    options,       \* the options argument: parallel, months, hasSignal, and
                   \* the behaviour of analysisClient, onProgress and clock
    signal,        \* the AbortSignal: aborted, reason, and whether it was
                   \* aborted before analyzeFeeds was called
    phase,         \* the analyzeFeeds promise: idle, running, resolved, rejected
    thrown,        \* what a rejected analyzeFeeds promise carries
    returned,      \* what a resolved analyzeFeeds promise carries
    nextIndex,     \* asyncPool's shared cursor (0-based, as in the code)
    results,       \* asyncPool's results array
    runners,       \* the runner loops of asyncPool, with the unit each awaits
    completed,     \* analyzeFeeds' shared completed counter
    progress,      \* the onProgress events, in emission order
    fetchCalls,    \* fetchFeed invocations per url
    analyzeCalls,  \* analysisClient.analyze invocations, in call order
    invoked,       \* worker invocations per index (1-based)
    raised,        \* per index, what fetchFeed or analyze rejected with, if it did
    frame          \* the call of a collaborator taken on its own, outside
                   \* analyzeFeeds: OllamaClient.analyze, fetchFeed, extractFeedUrls

vars == <<feedUrls, options, signal, phase, thrown, returned, nextIndex, results,
          runners, completed, progress, fetchCalls, analyzeCalls, invoked, raised,
          frame>>

-----------------------------------------------------------------------------
(* Bounds and program constants *)

\* the longest feedUrls list of a call without a signal, and of one with
MaxFeeds == 3

MaxSignalFeeds == 2

DEFAULT_PARALLEL == 3

DEFAULT_MONTH_WINDOW == 3

Urls == {"a", "b"}

Undefined == [kind |-> "undefined"]

\* An optional value: None when absent, Some(v) when set.
None == << >>

Some(v) == << v >>

\* A JavaScript number: an integer n, or the non-integer n + 1/2.
Num(n) == [kind |-> "int", n |-> n]

Half(n) == [kind |-> "half", n |-> n]

IsInteger(v) == v.kind = "int"

\* v <= 0 for a number v
NotPositive(v) == IF v.kind = "int" THEN v.n <= 0 ELSE v.n < 0

ParallelOptions == {Undefined, Num(-1), Num(0), Num(1), Num(2), Half(1)}

MonthsOptions == {Undefined, Num(-1), Num(0), Num(2), Half(2)}

Min(a, b) == IF a <= b THEN a ELSE b

Max(a, b) == IF a >= b THEN a ELSE b

-----------------------------------------------------------------------------
(* Errors: a thrown value is an Error object (with the identity of the place *)
(* that created it) or some other value.                                     *)

Err(name, message, origin) ==
    [kind |-> "error", name |-> name, message |-> message, origin |-> origin]

StringValue(s) == [kind |-> "string", text |-> s]

OtherValue == [kind |-> "other", text |-> "[object Object]"]

IsError(v) == v.kind = "error"

\* String(value) for a thrown value that is no Error
StringOf(v) == v.text

\* the reasons a caller may pass to AbortController.abort
AbortReasons == {Err("Error", "stop", "abort.reason"), StringValue("stop"), OtherValue}

\* what fetchFeed may reject with: the server of url a always answers, the
\* one of url b may fail
FetchFailures(url) ==
    IF url = "b" THEN {Err("FeedFetchError", "boom", "fetchFeed")} ELSE {}

\* what analysisClient.analyze may reject with
AnalyzeFailures == {StringValue("bad verdict")}

\* The analysis clients of a call: one the caller supplied, one the caller
\* supplied that judges every text relevant, and the one of
\* defaultDependencies, left in place when the caller supplied none.
AnalysisClients == {"supplied", "overeager", "default"}

\* an AnalysisResult
Verdict(relevant, reason) == [relevant |-> relevant, reason |-> reason]

\* what analyze of each client may resolve with
VerdictsOf(client) ==
    IF client = "supplied"
    THEN {Verdict(FALSE, None), Verdict(TRUE, Some("LLM explained"))}
    ELSE IF client = "overeager"
    THEN {Verdict(TRUE, Some("Great charts content"))}
    ELSE {}

\* what analyze of each client may reject with
AnalyzeFailuresOf(client) ==
    IF client = "supplied" THEN AnalyzeFailures
    ELSE IF client = "default"
    THEN {Err("Error", "analysisClient dependency is required", "defaultDependencies")}
    ELSE {}

\* options.onProgress and options.clock either return or throw
CallbackBehaviours == {"returns", "throws"}

ProgressError == Err("Error", "progress failed", "onProgress")

ClockError == Err("Error", "clock failed", "clock")

-----------------------------------------------------------------------------
(* Dates: a date is a civil record; its time value is a day number. *)

IsLeap(y) == (y % 4 = 0 /\ y % 100 # 0) \/ y % 400 = 0

DaysInMonth(y, m) ==
    IF m = 1 THEN (IF IsLeap(y) THEN 29 ELSE 28)
    ELSE IF m \in {3, 5, 8, 10} THEN 30 ELSE 31

\* the leap years among the years 1..n
LeapYearsUpTo(n) == (n \div 4) - (n \div 100) + (n \div 400)

\* days from 1 January 2020 to 1 January of year y
DaysBeforeYear(y) ==
    IF y <= 2020 THEN 0
    ELSE 365 * (y - 2020) + LeapYearsUpTo(y - 1) - LeapYearsUpTo(2019)

\* days from 1 January of year y to the first of its month m (0-based)
DaysBeforeMonth(y, m) ==
    << 0, 31, 59, 90, 120, 151, 181, 212, 243, 273, 304, 334 >>[m + 1]
        + (IF m > 1 /\ IsLeap(y) THEN 1 ELSE 0)

\* The time value of year y, month m (0-based, any integer), day d (any
\* positive integer): months and days beyond their range carry over, as in
\* Date.prototype.setMonth.
MakeTime(y, m, d) ==
    LET yy == y + (m \div 12)
        mm == m % 12
    IN  DaysBeforeYear(yy) + DaysBeforeMonth(yy, mm) + (d - 1)

Date(y, month, d) == [y |-> y, m |-> month - 1, d |-> d]

GetTime(date) == MakeTime(date.y, date.m, date.d)

\* the injected clock's reading
Now == Date(2025, 12, 5)

IsoString(date) == [kind |-> "iso", date |-> date]

Garbage == [kind |-> "text", text |-> "not a date"]

\* Number.isNaN(new Date(publishedAt).getTime())
IsInvalidDate(publishedAt) == publishedAt.kind # "iso"

\* new Date(publishedAt).getTime(), for a string that parses
ParseTime(publishedAt) == GetTime(publishedAt.date)

-----------------------------------------------------------------------------
(* Feeds *)

Item(title, publishedAt, description) ==
    [title |-> title, link |-> title, publishedAt |-> publishedAt,
     description |-> description]

\* an item whose text is in a content property and that has no description
ItemWithContent(title, publishedAt, content) ==
    [title |-> title, link |-> title, publishedAt |-> publishedAt,
     description |-> None, content |-> Some(content)]

\* what a successful fetchFeed of each url resolves with
FeedOf(url) ==
    IF url = "a"
    THEN [title |-> "A",
          items |-> << Item("old", Some(IsoString(Date(2024, 1, 1))), Some("Outdated")),
                       Item("nodesc", Some(IsoString(Date(2025, 11, 11))), None),
                       Item("blank", Some(IsoString(Date(2025, 11, 12))), Some("")),
                       ItemWithContent("llm", Some(IsoString(Date(2025, 11, 15))),
                                       "Everything about LLMs for iOS inference."),
                       Item("undated", None, Some("No date")),
                       Item("garbled", Some(Garbage), Some("Bad date")),
                       Item("edge", Some(IsoString(Date(2025, 9, 5))), Some("At the cutoff")) >>]
    ELSE [title |-> "B", items |-> << >>]

-----------------------------------------------------------------------------
(* src/utils.ts: throwIfAborted and the pieces of asyncPool *)

\* throwIfAborted without its check: it never throws
throwIfAbortedNever(hasSignal, sig) == None

\* throwIfAborted throwing a fresh AbortError whatever the reason is
throwIfAbortedWrapped(hasSignal, sig) ==
    IF ~hasSignal THEN None
    ELSE IF ~sig.aborted THEN None
    ELSE Some(Err("AbortError", "The operation was aborted", "throwIfAborted"))

\* throwIfAborted: None when it returns, Some(error) when it throws
throwIfAborted(hasSignal, sig) ==
    IF ~hasSignal THEN None
    ELSE IF ~sig.aborted THEN None
    ELSE LET reason == sig.reason[1]
         IN  IF IsError(reason) THEN Some(reason)
             ELSE IF reason.kind = "string"
                  THEN Some(Err("AbortError", reason.text, "throwIfAborted"))
                  ELSE Some(Err("AbortError", "The operation was aborted", "throwIfAborted"))

\* asyncPool's validation of options.concurrency
ConcurrencyInvalid(concurrency) == ~IsInteger(concurrency) \/ NotPositive(concurrency)

\* an asyncPool that does not look for an empty list
EmptyInputNever(total) == FALSE

\* if (total === 0) return []
EmptyInput(total) == total = 0

\* a pool of one runner per item, whatever the limit
poolSizeOfTotal(concurrency, total) == total

\* const poolSize = Math.min(concurrency, total)
poolSize(concurrency, total) == Min(concurrency, total)

\* a claim that leaves the cursor where it was
ClaimSameIndex(currentIndex) == currentIndex

\* nextIndex = currentIndex + 1
ClaimNext(currentIndex) == currentIndex + 1

\* results.push(<the worker's value>): the first free slot, in completion order
StoreResultInCompletionOrder(res, currentIndex, value) ==
    LET free == CHOOSE i \in 1..Len(res) : res[i] = None /\ \A j \in 1..(i - 1) : res[j] # None
    IN  [res EXCEPT ![free] = Some(value)]

\* results[currentIndex] = <the worker's value>
StoreResult(res, currentIndex, value) == [res EXCEPT ![currentIndex + 1] = Some(value)]

-----------------------------------------------------------------------------
(* src/analyzer.ts: the pure parts of analyzeFeeds *)

\* the check of options.parallel
ParallelInvalid(parallel) == ~IsInteger(parallel) \/ NotPositive(parallel)

\* options.parallel ?? DEFAULT_PARALLEL
ParallelOf(opt) == IF opt.kind = "undefined" THEN Num(DEFAULT_PARALLEL) ELSE opt

\* normalizeMonths with value < 0 for value <= 0
MonthsInvalidNegativeOnly(value) ==
    value.kind # "undefined" /\ (~IsInteger(value) \/ value.n < 0)

\* normalizeMonths throws a RangeError
MonthsInvalid(value) ==
    value.kind # "undefined" /\ (~IsInteger(value) \/ NotPositive(value))

\* normalizeMonths returns
normalizeMonths(value) == IF value.kind = "undefined" THEN DEFAULT_MONTH_WINDOW ELSE value.n

\* subtractMonths: the time value of the cutoff date
subtractMonths(date, months) ==
    LET safeMonths == Max(0, months)
    IN  MakeTime(date.y, date.m - safeMonths, date.d)

\* shouldAnalyzeItem with > for >=
shouldAnalyzeItemStrict(item, cutoffTime) ==
    IF item.publishedAt = None THEN FALSE
    ELSE IF IsInvalidDate(item.publishedAt[1]) THEN FALSE
    ELSE ParseTime(item.publishedAt[1]) > cutoffTime

shouldAnalyzeItem(item, cutoffTime) ==
    IF item.publishedAt = None THEN FALSE
    ELSE IF IsInvalidDate(item.publishedAt[1]) THEN FALSE
    ELSE ParseTime(item.publishedAt[1]) >= cutoffTime

\* a loop head that takes the last item that reaches the analysis client
\* where the loop takes the first
NextAnalyzedLast(items, from, cutoffTime) ==
    LET reaching == {k \in from..Len(items) :
                        /\ shouldAnalyzeItem(items[k], cutoffTime)
                        /\ items[k].description \notin {None, Some("")}}
    IN  IF reaching = {} THEN 0
        ELSE CHOOSE k \in reaching : \A other \in reaching : other <= k

\* The loop head of analyzeFeedItems: the position of the first item at or
\* after position from that reaches analysisClient.analyze, 0 when none does.
RECURSIVE NextAnalyzed(_, _, _)
NextAnalyzed(items, from, cutoffTime) ==
    IF from > Len(items) THEN 0
    ELSE IF ~shouldAnalyzeItem(items[from], cutoffTime) THEN NextAnalyzed(items, from + 1, cutoffTime)
    ELSE IF items[from].description \in {None, Some("")} THEN NextAnalyzed(items, from + 1, cutoffTime)
    ELSE from

\* the arguments of the call of dependencies.fetchFeed
FetchFeedArguments(feedUrl) == [url |-> feedUrl, signal |-> None]

\* the arguments of the call of analysisClient.analyze
AnalyzeArguments(item) ==
    [description |-> item.description[1], gracefulDegradation |-> TRUE, signal |-> None]

\* const result = { feedUrl, status: "fulfilled" }
NewResult(feedUrl) ==
    [feedUrl |-> feedUrl, status |-> "fulfilled", feed |-> None, error |-> None,
     durationMs |-> None, analyzedItems |-> None, relevantPosts |-> None]

\* a catch block that reports a generic error in place of the caught one
CatchErrorGeneric(result, error) ==
    [result EXCEPT !.status = "rejected",
                   !.error = Some(Err("Error", "feed failed", "analyzeFeeds"))]

\* the catch block of the worker
CatchError(result, error) ==
    [result EXCEPT !.status = "rejected",
                   !.error = Some(IF IsError(error) THEN error
                                  ELSE Err("Error", StringOf(error), "analyzeFeeds"))]

\* The numbers a clock may return: a number of milliseconds, the largest
\* double or its negative, NaN, Infinity or -Infinity.
Finite(n) == [kind |-> "finite", n |-> n]

MaxValue(sign) == [kind |-> "max", sign |-> sign]

NotANumber == [kind |-> "nan"]

Infinite(sign) == [kind |-> "infinity", sign |-> sign]

\* Number.isFinite
NumberIsFinite(v) == v.kind \in {"finite", "max"}

\* a - b in double arithmetic, for finite a and b: the largest double
\* absorbs a number of milliseconds, and MAX_VALUE - (-MAX_VALUE) overflows
Subtract(a, b) ==
    IF a.kind = "finite" /\ b.kind = "finite" THEN Finite(a.n - b.n)
    ELSE IF b.kind = "finite" THEN a
    ELSE IF a.kind = "finite" THEN MaxValue(0 - b.sign)
    ELSE IF a.sign = b.sign THEN Finite(0)
    ELSE Infinite(a.sign)

\* Math.max(0, v) for a finite v
MathMaxZero(v) ==
    IF v.kind = "finite" THEN Finite(Max(0, v.n))
    ELSE IF v.sign < 0 THEN Finite(0)
    ELSE v

\* a finally block that stores the difference of the readings as it is
SetDurationSigned(result, startedAt, finishedAt) ==
    IF NumberIsFinite(finishedAt) /\ NumberIsFinite(startedAt)
    THEN [result EXCEPT !.durationMs = Some(Subtract(finishedAt, startedAt))]
    ELSE result

\* the finally block of the worker
SetDuration(result, startedAt, finishedAt) ==
    IF NumberIsFinite(finishedAt) /\ NumberIsFinite(startedAt)
    THEN LET duration == Subtract(finishedAt, startedAt)
         IN  [result EXCEPT !.durationMs =
                    IF NumberIsFinite(duration) THEN Some(MathMaxZero(duration)) ELSE None]
    ELSE result

\* clock(), of the default clock
Clock == Finite(GetTime(Now))

\* a progress update that reports the unit's input position as completed
ProgressUpdateByIndex(unit, done, total) ==
    [feedUrl |-> unit.result.feedUrl, completed |-> unit.index + 1, total |-> total,
     status |-> unit.result.status, feed |-> unit.result.feed,
     error |-> unit.result.error, durationMs |-> unit.result.durationMs]

\* a progress update that leaves the error out
ProgressUpdateWithoutError(unit, done, total) ==
    [feedUrl |-> unit.result.feedUrl, completed |-> done, total |-> total,
     status |-> unit.result.status, feed |-> unit.result.feed,
     error |-> None, durationMs |-> unit.result.durationMs]

\* the argument of options.onProgress
ProgressUpdate(unit, done, total) ==
    [feedUrl |-> unit.result.feedUrl, completed |-> done, total |-> total,
     status |-> unit.result.status, feed |-> unit.result.feed,
     error |-> unit.result.error, durationMs |-> unit.result.durationMs]

\* a post that carries a bare verdict in place of the one received
RelevantPostBare(item, analysis) ==
    [title |-> item.title, link |-> item.link, publishedAt |-> item.publishedAt,
     analysis |-> Verdict(TRUE, None)]

RelevantPost(item, analysis) ==
    [title |-> item.title, link |-> item.link, publishedAt |-> item.publishedAt,
     analysis |-> analysis]

-----------------------------------------------------------------------------
(* The state machine *)

Total == Len(feedUrls)

FeedLists == UNION {[1..n -> Urls] : n \in 0..MaxFeeds}

\* a runner that holds no unit: before its first claim and after its last
BlankRunner ==
    [state |-> "done", index |-> 0, result |-> NewResult(""), startedAt |-> Finite(0),
     pos |-> 0, analyzedCount |-> 0, relevantPosts |-> << >>, cutoffTime |-> 0,
     error |-> None, call |-> None]

\* the state before the call, whatever the arguments
BeforeCall ==
    /\ signal = [aborted |-> FALSE, reason |-> None, beforeCall |-> FALSE]
    /\ phase = "idle"
    /\ thrown = None
    /\ returned = None
    /\ nextIndex = 0
    /\ results = << >>
    /\ runners = << >>
    /\ completed = 0
    /\ progress = << >>
    /\ fetchCalls = [u \in Urls |-> 0]
    /\ analyzeCalls = << >>
    /\ invoked = << >>
    /\ raised = << >>

\* a call with a supplied analysis client and callbacks that return
Init ==
    /\ feedUrls \in FeedLists
    /\ options \in [parallel : ParallelOptions, months : MonthsOptions,
                    hasSignal : BOOLEAN, analysisClient : {"supplied"},
                    onProgress : {"returns"}, clock : {"returns"}]
    /\ options.hasSignal => Len(feedUrls) <= MaxSignalFeeds
    /\ BeforeCall
    /\ frame = None

\* The worker from its first line to its first await: the call of fetchFeed.
StartWorker(currentIndex) ==
    IF options.clock = "throws"
    THEN [BlankRunner EXCEPT !.state = "threw", !.index = currentIndex,
                             !.result = NewResult(feedUrls[currentIndex + 1]),
                             !.error = Some(ClockError)]
    ELSE [BlankRunner EXCEPT !.state = "fetching", !.index = currentIndex,
                             !.result = NewResult(feedUrls[currentIndex + 1]),
                             !.startedAt = Clock,
                             !.call = Some(FetchFeedArguments(feedUrls[currentIndex + 1]))]

\* a pass of the runner's loop that does not look at the signal
RunnerIterationUnchecked(p, r) ==
    LET currentIndex == p.nextIndex
    IN  IF currentIndex >= Total
        THEN [p EXCEPT !.runners[r] = BlankRunner]
        ELSE [p EXCEPT !.nextIndex = ClaimNext(currentIndex),
                       !.runners[r] = StartWorker(currentIndex),
                       !.fetchCalls[feedUrls[currentIndex + 1]] =
                            IF options.clock = "throws" THEN @ ELSE @ + 1,
                       !.invoked[currentIndex + 1] = @ + 1]

\* One pass of the runner's while loop, from throwIfAborted to the await of
\* the worker, on the pool p = [nextIndex, runners, fetchCalls, invoked].
RunnerIteration(p, r) ==
    LET aborted == throwIfAborted(options.hasSignal, signal)
        currentIndex == p.nextIndex
    IN  IF aborted # None
        THEN [p EXCEPT !.runners[r] = [BlankRunner EXCEPT !.state = "failed", !.error = aborted]]
        ELSE IF currentIndex >= Total
        THEN [p EXCEPT !.runners[r] = BlankRunner]
        ELSE [p EXCEPT !.nextIndex = ClaimNext(currentIndex),
                       !.runners[r] = StartWorker(currentIndex),
                       !.fetchCalls[feedUrls[currentIndex + 1]] =
                            IF options.clock = "throws" THEN @ ELSE @ + 1,
                       !.invoked[currentIndex + 1] = @ + 1]

\* Array.from({ length: poolSize }, () => runner())
RECURSIVE LaunchRunners(_, _, _)
LaunchRunners(p, r, size) ==
    IF r > size THEN p ELSE LaunchRunners(RunnerIteration(p, r), r + 1, size)

\* await Promise.all(runners), and the await of asyncPool in analyzeFeeds:
\* the first rejected runner rejects the call, all runners done resolve it.
SettlePool(p, r, res) ==
    IF phase # "running" THEN <<phase, thrown, returned>>
    ELSE IF p.runners[r].state = "failed" THEN <<"rejected", p.runners[r].error, None>>
    ELSE IF \A q \in DOMAIN p.runners : p.runners[q].state = "done"
         THEN <<"resolved", None, Some(res)>>
         ELSE <<phase, thrown, returned>>

\* analyzeFeeds and asyncPool from the call to the first await
analyzeFeeds ==
    /\ phase = "idle"
    /\ LET parallel == ParallelOf(options.parallel)
           size == poolSize(parallel.n, Total)
           blank == [nextIndex |-> 0, runners |-> [r \in 1..size |-> BlankRunner],
                     fetchCalls |-> fetchCalls, invoked |-> [i \in 1..Total |-> 0]]
           p == LaunchRunners(blank, 1, size)
           aborted == throwIfAborted(options.hasSignal, signal)
       IN  IF ParallelInvalid(parallel)
           THEN /\ phase' = "rejected"
                /\ thrown' = Some(Err("RangeError", "parallel must be a positive integer", "analyzeFeeds"))
                /\ UNCHANGED <<returned, nextIndex, results, runners, fetchCalls, analyzeCalls, invoked, raised>>
           ELSE IF MonthsInvalid(options.months)
           THEN /\ phase' = "rejected"
                /\ thrown' = Some(Err("RangeError", "months must be a positive integer", "normalizeMonths"))
                /\ UNCHANGED <<returned, nextIndex, results, runners, fetchCalls, analyzeCalls, invoked, raised>>
           ELSE IF ConcurrencyInvalid(parallel)
           THEN /\ phase' = "rejected"
                /\ thrown' = Some(Err("RangeError", "concurrency must be a positive integer", "asyncPool"))
                /\ UNCHANGED <<returned, nextIndex, results, runners, fetchCalls, analyzeCalls, invoked, raised>>
           ELSE IF EmptyInput(Total)
           THEN /\ phase' = "resolved"
                /\ returned' = Some(<< >>)
                /\ UNCHANGED <<thrown, nextIndex, results, runners, fetchCalls, analyzeCalls, invoked, raised>>
           ELSE IF aborted # None
           THEN /\ phase' = "rejected"
                /\ thrown' = aborted
                /\ UNCHANGED <<returned, nextIndex, results, runners, fetchCalls, analyzeCalls, invoked, raised>>
           ELSE /\ phase' = "running"
                /\ results' = [i \in 1..Total |-> None]
                /\ nextIndex' = p.nextIndex
                /\ runners' = p.runners
                /\ fetchCalls' = p.fetchCalls
                /\ invoked' = p.invoked
                /\ analyzeCalls' = [i \in 1..Total |-> << >>]
                /\ raised' = [i \in 1..Total |-> None]
                /\ UNCHANGED <<thrown, returned>>
    /\ UNCHANGED <<feedUrls, options, signal, completed, progress, frame>>

\* whether the call of options.onProgress that is the n-th of the run
\* throws: a callback may throw at every call or at its first call only
OnProgressThrows(behaviour, n) ==
    \/ behaviour = "throws"
    \/ behaviour = "throws first" /\ n = 1

\* The worker from the end of its try/catch to its return: the finally
\* block, the completed counter and the onProgress call.
FinishUnit(r, unit) ==
    LET finished == [unit EXCEPT !.state = "returned", !.call = None,
                                 !.result = SetDuration(unit.result, unit.startedAt, Clock)]
    IN  /\ completed' = completed + 1
        /\ progress' = Append(progress, ProgressUpdate(finished, completed + 1, Total))
        /\ runners' = [runners EXCEPT ![r] =
                IF OnProgressThrows(options.onProgress, completed + 1)
                THEN [finished EXCEPT !.state = "threw", !.error = Some(ProgressError)]
                ELSE finished]

\* The head of the for loop of analyzeFeedItems at position from: either the
\* next call of analysisClient.analyze, or the return to the worker and the
\* rest of its try block.
ContinueItems(r, unit, from) ==
    LET items == unit.result.feed[1].items
        k == NextAnalyzed(items, from, unit.cutoffTime)
    IN  IF k # 0
        THEN /\ runners' = [runners EXCEPT ![r] =
                    [unit EXCEPT !.state = "analyzing", !.pos = k,
                                 !.analyzedCount = unit.analyzedCount + 1,
                                 !.call = Some(AnalyzeArguments(items[k]))]]
             /\ analyzeCalls' = [analyzeCalls EXCEPT ![unit.index + 1] = Append(@, items[k].title)]
             /\ UNCHANGED <<completed, progress>>
        ELSE /\ FinishUnit(r, [unit EXCEPT
                    !.result.analyzedItems = Some(unit.analyzedCount),
                    !.result.relevantPosts =
                        IF Len(unit.relevantPosts) > 0 THEN Some(unit.relevantPosts) ELSE None])
             /\ UNCHANGED analyzeCalls

\* The promise of fetchFeed settles and the worker runs on to its next await
\* or to its return.
FetchSettles(r) ==
    /\ r \in DOMAIN runners
    /\ runners[r].state = "fetching"
    /\ LET unit == runners[r]
           feed == FeedOf(unit.result.feedUrl)
           fetched == [unit EXCEPT !.result.feed = Some(feed),
                                   !.cutoffTime = subtractMonths(Now, normalizeMonths(options.months))]
       IN  \/ /\ IF Len(feed.items) > 0
                 THEN ContinueItems(r, fetched, 1)
                 ELSE /\ FinishUnit(r, [unit EXCEPT !.result.feed = Some(feed)])
                      /\ UNCHANGED analyzeCalls
              /\ UNCHANGED raised
           \/ \E error \in FetchFailures(unit.result.feedUrl) :
                /\ FinishUnit(r, [unit EXCEPT !.result = CatchError(unit.result, error)])
                /\ raised' = [raised EXCEPT ![unit.index + 1] = Some(error)]
                /\ UNCHANGED analyzeCalls
    /\ UNCHANGED <<feedUrls, options, signal, phase, thrown, returned, nextIndex,
                   results, fetchCalls, invoked, frame>>

\* The promise of analysisClient.analyze settles and the worker runs on.
AnalyzeSettles(r) ==
    /\ r \in DOMAIN runners
    /\ runners[r].state = "analyzing"
    /\ LET unit == runners[r]
           item == unit.result.feed[1].items[unit.pos]
       IN  \/ \E analysis \in VerdictsOf(options.analysisClient) :
                LET posts == IF analysis.relevant
                             THEN Append(unit.relevantPosts, RelevantPost(item, analysis))
                             ELSE unit.relevantPosts
                IN  /\ ContinueItems(r, [unit EXCEPT !.relevantPosts = posts], unit.pos + 1)
                    /\ UNCHANGED raised
           \/ \E error \in AnalyzeFailuresOf(options.analysisClient) :
                /\ FinishUnit(r, [unit EXCEPT !.result = CatchError(unit.result, error)])
                /\ raised' = [raised EXCEPT ![unit.index + 1] = Some(error)]
                /\ UNCHANGED analyzeCalls
    /\ UNCHANGED <<feedUrls, options, signal, phase, thrown, returned, nextIndex,
                   results, fetchCalls, invoked, frame>>

\* The runner's await of the worker resumes: the result is stored and the
\* loop runs on to the next await, to its return or to its throw; when the
\* worker threw, the runner throws what it threw.
RunnerResumes(r) ==
    /\ r \in DOMAIN runners
    /\ runners[r].state \in {"returned", "threw"}
    /\ LET pool == [nextIndex |-> nextIndex, runners |-> runners,
                    fetchCalls |-> fetchCalls, invoked |-> invoked]
           stored == IF runners[r].state = "returned"
                     THEN StoreResult(results, runners[r].index, runners[r].result)
                     ELSE results
           p == IF runners[r].state = "returned"
                THEN RunnerIteration(pool, r)
                ELSE [pool EXCEPT !.runners[r] =
                        [BlankRunner EXCEPT !.state = "failed", !.error = runners[r].error]]
           settled == SettlePool(p, r, stored)
       IN  /\ results' = stored
           /\ nextIndex' = p.nextIndex
           /\ runners' = p.runners
           /\ fetchCalls' = p.fetchCalls
           /\ invoked' = p.invoked
           /\ phase' = settled[1]
           /\ thrown' = settled[2]
           /\ returned' = settled[3]
    /\ UNCHANGED <<feedUrls, options, signal, completed, progress, analyzeCalls, raised,
                   frame>>

Active(r) == runners[r].state \in {"fetching", "analyzing", "returned", "threw"}

\* The caller aborts the signal: before the call, or while units are pending.
Abort ==
    /\ options.hasSignal
    /\ ~signal.aborted
    /\ phase = "idle" \/ \E r \in DOMAIN runners : Active(r)
    /\ \E reason \in AbortReasons :
         signal' = [aborted |-> TRUE, reason |-> Some(reason),
                    beforeCall |-> (phase = "idle")]
    /\ UNCHANGED <<feedUrls, options, phase, thrown, returned, nextIndex, results,
                   runners, completed, progress, fetchCalls, analyzeCalls, invoked, raised,
                   frame>>

Next ==
    \/ analyzeFeeds
    \/ Abort
    \/ \E r \in 1..MaxFeeds : FetchSettles(r)
    \/ \E r \in 1..MaxFeeds : AnalyzeSettles(r)
    \/ \E r \in 1..MaxFeeds : RunnerResumes(r)

Spec == Init /\ [][Next]_vars

\* A call with any analysis client, and with callbacks that may throw.
InitCollaborators ==
    /\ feedUrls \in UNION {[1..n -> Urls] : n \in 0..MaxSignalFeeds}
    /\ options \in [parallel : {Num(1), Num(2)}, months : {Undefined},
                    hasSignal : BOOLEAN, analysisClient : AnalysisClients,
                    onProgress : CallbackBehaviours, clock : CallbackBehaviours]
    /\ BeforeCall
    /\ frame = None

SpecCollaborators == InitCollaborators /\ [][Next]_vars

\* A call on more feeds than runners whose onProgress throws at its first
\* call: one worker invocation rejects, the others return.
InitFailingWorker ==
    /\ feedUrls \in [1..MaxFeeds -> Urls]
    /\ options \in [parallel : {Num(MaxFeeds - 1)}, months : {Undefined},
                    hasSignal : BOOLEAN, analysisClient : {"supplied"},
                    onProgress : {"throws first"}, clock : {"returns"}]
    /\ BeforeCall
    /\ frame = None

SpecFailingWorker == InitFailingWorker /\ [][Next]_vars

\* A call with a signal, valid options and feeds to analyze.
InitCancellable ==
    /\ Init
    /\ options.hasSignal
    /\ options.parallel \in {Num(1), Num(2)}
    /\ options.months = Undefined
    /\ Len(feedUrls) > 0

\* a continuation of the call runs
Continuation ==
    \E r \in 1..MaxFeeds : FetchSettles(r) \/ AnalyzeSettles(r) \/ RunnerResumes(r)

\* The event loop does not stop while a continuation is pending: an awaited
\* fetchFeed or analyze settles, a runner whose worker has settled resumes.
Fairness == WF_vars(Continuation)

FairSpec == InitCancellable /\ [][Next]_vars /\ Fairness

-----------------------------------------------------------------------------
(* subtractMonths on its own.  In this specification options holds the       *)
(* arguments of one call of subtractMonths and returned what it returns.     *)

\* the longest month window of a call of subtractMonths
MaxMonths == 3

ReferenceYears == {2024, 2025}

\* the reference dates: every day of a leap year and of a common year
ReferenceDates ==
    {date \in [y : ReferenceYears, m : 0..11, d : 1..31] : date.d <= DaysInMonth(date.y, date.m)}

\* the civil date of a time value
DateOfTime(t) ==
    CHOOSE date \in [y : 2023..2025, m : 0..11, d : 1..31] :
        date.d <= DaysInMonth(date.y, date.m) /\ GetTime(date) = t

InitCutoff ==
    /\ feedUrls = << >>
    /\ options \in [date : ReferenceDates, months : 1..MaxMonths]
    /\ BeforeCall
    /\ frame = None

\* one call of subtractMonths, from the call to the return
subtractMonthsCall ==
    /\ phase = "idle"
    /\ phase' = "resolved"
    /\ returned' = Some(DateOfTime(subtractMonths(options.date, options.months)))
    /\ UNCHANGED <<feedUrls, options, signal, thrown, nextIndex, results, runners,
                   completed, progress, fetchCalls, analyzeCalls, invoked, raised, frame>>

NextCutoff == subtractMonthsCall

SpecCutoff == InitCutoff /\ [][NextCutoff]_vars

-----------------------------------------------------------------------------
(* The collaborators on their own.  While one of them runs no call of        *)
(* analyzeFeeds is under way: its variables keep the values of NoAnalyzerCall *)
(* and frame holds the collaborator's call.                                  *)

analyzerVars == <<feedUrls, options, signal, phase, thrown, returned, nextIndex,
                  results, runners, completed, progress, fetchCalls, analyzeCalls,
                  invoked, raised>>

NoAnalyzerCall ==
    /\ feedUrls = << >>
    /\ options = Undefined
    /\ BeforeCall

-----------------------------------------------------------------------------
(* src/ollama-client.ts: OllamaClient.analyze and executeWithRetry *)

\* the largest maxRetries of a client
MaxRetries == 2

OllamaConfigurationError ==
    [kind |-> "error", name |-> "OllamaConfigurationError",
     message |-> << "Description must be a non-empty string" >>]

OllamaRequestError(message, status) ==
    [kind |-> "error", name |-> "OllamaRequestError", message |-> << message >>,
     status |-> status]

OllamaParseError ==
    [kind |-> "error", name |-> "OllamaParseError",
     message |-> << "Unable to locate JSON response in Ollama output" >>]

OllamaTimeoutError ==
    [kind |-> "error", name |-> "OllamaTimeoutError",
     message |-> << "Request to /api/generate timed out" >>]

OllamaUnavailableError(cause, attempts) ==
    [kind |-> "error", name |-> "OllamaUnavailableError",
     message |-> << "Failed to communicate with Ollama after", attempts, "attempt(s)" >>
                    \o cause.message,
     cause |-> cause, attempts |-> attempts]

\* what the fetcher may reject with: a network failure and some other error
NetworkError == [kind |-> "error", name |-> "TypeError", message |-> << "connection refused" >>]

FetcherError == [kind |-> "error", name |-> "Error", message |-> << "fetcher failed" >>]

\* the reason the caller aborts the request's signal with
RequestAbortReason == [kind |-> "error", name |-> "Error", message |-> << "stop" >>]

\* the statuses of the responses that are not ok
HttpStatuses == {400, 429, 500}

\* what one call of the fetcher may end with: a response that is ok, whose
\* answer holds a decision, is empty or holds no JSON; a response that is
\* not ok; a rejection; the timeout of performFetch
FetcherOutcomes ==
    {[kind |-> "response", ok |-> TRUE, status |-> 200, answer |-> a] :
        a \in {"decision", "empty", "garbage"}}
    \cup {[kind |-> "response", ok |-> FALSE, status |-> st, answer |-> "empty"] :
        st \in HttpStatuses}
    \cup {[kind |-> "rejection", error |-> e] : e \in {NetworkError, FetcherError}}
    \cup {[kind |-> "timeout"]}

\* a retry policy that retries every failure
shouldRetryAlways(error) == TRUE

shouldRetry(error) ==
    IF error.name = "OllamaTimeoutError" THEN TRUE
    ELSE IF error.name = "OllamaRequestError" THEN error.status >= 500 \/ error.status = 429
    ELSE IF error.name = "OllamaUnavailableError" THEN TRUE
    ELSE IF error.name = "TypeError" THEN TRUE
    ELSE FALSE

\* if (attempt > this.maxRetries)
RetriesExhaustedLate(attempt, maxRetries) == attempt > maxRetries

\* if (attempt >= this.maxRetries)
RetriesExhausted(attempt, maxRetries) == attempt >= maxRetries

\* a client for which no failure is graceful
isGracefulFailureNever(error) == FALSE

isGracefulFailure(error) ==
    IF error.name \in {"OllamaUnavailableError", "OllamaTimeoutError"} THEN TRUE
    ELSE IF error.name = "OllamaRequestError" THEN error.status >= 500 \/ error.status = 429
    ELSE FALSE

createFallbackAnalysis(error) ==
    [relevant |-> FALSE, confidence |-> Some(0), reason |-> Some(error.message),
     tags |-> None, rawResponse |-> ""]

\* parseDecision of an answer that holds a decision
parseDecision(answer) ==
    [relevant |-> TRUE, confidence |-> None, reason |-> None, tags |-> None,
     rawResponse |-> answer]

InitOllama ==
    /\ NoAnalyzerCall
    /\ frame \in [maxRetries : 0..MaxRetries, gracefulDegradation : BOOLEAN,
                  hasSignal : BOOLEAN, description : {"Offline scenario", "  "},
                  pc : {"idle"}, attempt : {0}, requests : {0}, failures : {<< >>},
                  aborted : {FALSE}, caught : {None}, value : {None}]

\* the catch block of analyze, and what analyze settles with
Settle(f, error) ==
    IF f.gracefulDegradation /\ isGracefulFailure(error)
    THEN [f EXCEPT !.pc = "resolved", !.caught = Some(error),
                   !.value = Some(createFallbackAnalysis(error))]
    ELSE [f EXCEPT !.pc = "rejected", !.caught = Some(error)]

\* a loop head that does not look at the signal
AttemptUnchecked(f) == [f EXCEPT !.pc = "requesting", !.requests = @ + 1]

\* The head of the loop of executeWithRetry and the operation up to its
\* await of the fetcher.
Attempt(f) ==
    IF f.hasSignal /\ f.aborted
    THEN Settle(f, RequestAbortReason)
    ELSE [f EXCEPT !.pc = "requesting", !.requests = @ + 1]

\* what the operation throws for an outcome of the fetcher, None when it
\* returns the response
OperationError(f, outcome) ==
    IF outcome.kind = "response"
    THEN IF outcome.ok THEN None
         ELSE Some(OllamaRequestError("Ollama generation failed", outcome.status))
    ELSE IF f.aborted THEN Some(RequestAbortReason)
    ELSE IF outcome.kind = "timeout" THEN Some(OllamaTimeoutError)
    ELSE Some(outcome.error)

\* the catch block of executeWithRetry, to the sleep or to the throw
Retry(f, error) ==
    LET g == [f EXCEPT !.failures = Append(@, error)]
    IN  IF ~shouldRetry(error) THEN Settle(g, error)
        ELSE IF RetriesExhausted(g.attempt, g.maxRetries)
        THEN Settle(g, OllamaUnavailableError(error, g.attempt + 1))
        ELSE IF g.hasSignal /\ g.aborted
        THEN Settle([g EXCEPT !.attempt = @ + 1], RequestAbortReason)
        ELSE [g EXCEPT !.attempt = @ + 1, !.pc = "sleeping"]

\* analyze from the call to its first await
analyzeCall ==
    /\ frame # None
    /\ frame.pc = "idle"
    /\ frame' = IF frame.description = "  "
                THEN [frame EXCEPT !.pc = "rejected", !.caught = Some(OllamaConfigurationError)]
                ELSE Attempt(frame)
    /\ UNCHANGED analyzerVars

\* the fetcher settles and analyze runs on to its next await or to its end
RequestSettles ==
    /\ frame # None
    /\ frame.pc = "requesting"
    /\ \E outcome \in FetcherOutcomes :
         LET error == OperationError(frame, outcome)
         IN  frame' =
                IF error # None THEN Retry(frame, error[1])
                ELSE IF outcome.answer = "decision"
                THEN [frame EXCEPT !.pc = "resolved",
                                   !.value = Some(parseDecision(outcome.answer))]
                ELSE IF outcome.answer = "empty"
                THEN Settle(frame, OllamaRequestError("Ollama response did not include a decision",
                                                      outcome.status))
                ELSE Settle(frame, OllamaParseError)
    /\ UNCHANGED analyzerVars

\* the sleep between two attempts ends: its timer fires, or the signal is
\* aborted
SleepEnds ==
    /\ frame # None
    /\ frame.pc = "sleeping"
    /\ frame' = Attempt(frame)
    /\ UNCHANGED analyzerVars

\* the caller aborts the signal of the request
AbortRequest ==
    /\ frame # None
    /\ frame.hasSignal
    /\ ~frame.aborted
    /\ frame.pc \in {"idle", "requesting", "sleeping"}
    /\ frame' = [frame EXCEPT !.aborted = TRUE]
    /\ UNCHANGED analyzerVars

NextOllama == analyzeCall \/ RequestSettles \/ SleepEnds \/ AbortRequest

SpecOllama == InitOllama /\ [][NextOllama]_vars

\* The calls of options.onVerboseMessage made by the unit of index i, in
\* call order: AnalyzeFeedsOptions has no such option and neither the worker
\* nor analyzeFeedItems calls anything but fetchFeed, analyze, clock and
\* onProgress.
VerboseMessages(i) == << >>

-----------------------------------------------------------------------------
(* src/rss-parser.ts: fetchFeed on its own.  A URL string is the sequence of *)
(* its scheme and its remainder, or one piece when it has no scheme.         *)

DEFAULT_TIMEOUT_MS == 10000

FeedFetchErrorKinds == {"invalid-url", "timeout", "http-error", "fetch-error", "parse-error"}

FeedFetchError(message, errorKind, cause) ==
    [kind |-> "error", name |-> "FeedFetchError", message |-> message,
     errorKind |-> errorKind, cause |-> cause]

\* the URL strings fetchFeed is called with
FeedUrlStrings ==
    {<< "notaurl" >>, << "ftp:", "//example.com/feed" >>,
     << "http:", "//example.com/feed" >>, << "https:", "//example.com/feed" >>}

\* new URL(url).protocol, None when the constructor throws
UrlProtocol(url) == IF Len(url) = 2 THEN Some(url[1]) ELSE None

\* the TypeError new URL throws
InvalidUrlError == [kind |-> "error", name |-> "TypeError", message |-> << "Invalid URL" >>]

\* the error a fetcher that honours the signal rejects with when the signal
\* is aborted
AbortError == [kind |-> "error", name |-> "AbortError", message |-> << "Aborted" >>]

\* the error response.text() rejects with when the connection ends within
\* the body
BodyError == [kind |-> "error", name |-> "TypeError", message |-> << "terminated" >>]

\* the error parseString rejects with
XmlError == [kind |-> "error", name |-> "Error", message |-> << "Feed not recognized as RSS 1 or 2." >>]

\* the statuses a feed server answers with
FeedStatuses == {200, 404, 500}

\* what the bodies of the responses are: a feed, text that is no XML, and a
\* body that cannot be read to its end
FeedBodies == {"feed", "not xml", "unreadable"}

\* what one call of the fetcher may end with by itself
FeedFetcherOutcomes ==
    {[kind |-> "response", ok |-> (st >= 200 /\ st <= 299), status |-> st, body |-> b] :
        st \in FeedStatuses, b \in FeedBodies}
    \cup {[kind |-> "rejection", error |-> NetworkError]}

\* the catch block around the fetcher
FetchRejection(f, error) ==
    IF error.name = "AbortError"
    THEN FeedFetchError(<< "Fetching feed timed out after", f.timeoutMs >> \o f.url,
                        "timeout", Some(error))
    ELSE FeedFetchError(<< "Failed to fetch feed:" >> \o f.url, "fetch-error", Some(error))

\* const xml = await response.text(), before the try block, and then the
\* try block that parses xml
ReadBody(f, body) ==
    IF body = "unreadable"
    THEN [f EXCEPT !.pc = "rejected", !.caught = Some(BodyError)]
    ELSE IF body = "feed"
    THEN [f EXCEPT !.pc = "resolved", !.value = Some(FeedOf("a"))]
    ELSE [f EXCEPT !.pc = "rejected",
                   !.caught = Some(FeedFetchError(<< "Failed to parse feed contents from" >> \o f.url,
                                                  "parse-error", Some(XmlError)))]

InitFetchFeed ==
    /\ NoAnalyzerCall
    /\ frame \in [url : FeedUrlStrings, timeoutMs : {10, DEFAULT_TIMEOUT_MS},
                  honoursSignal : BOOLEAN, pc : {"idle"}, timedOut : {FALSE},
                  outcome : {None}, caught : {None}, value : {None}]

\* fetchFeed from the call to its await of the fetcher
fetchFeedCall ==
    /\ frame # None
    /\ frame.pc = "idle"
    /\ LET protocol == UrlProtocol(frame.url)
       IN  frame' =
             IF protocol = None
             THEN [frame EXCEPT !.pc = "rejected",
                                !.caught = Some(FeedFetchError(<< "Invalid feed URL:" >> \o frame.url,
                                                               "invalid-url", Some(InvalidUrlError)))]
             ELSE IF protocol[1] # "http:" /\ protocol[1] # "https:"
             THEN [frame EXCEPT !.pc = "rejected",
                                !.caught = Some(FeedFetchError(<< "Unsupported protocol for feed URL:" >>
                                                                   \o frame.url,
                                                               "invalid-url", None))]
             ELSE [frame EXCEPT !.pc = "fetching"]
    /\ UNCHANGED analyzerVars

\* the timer of AbortSignalController fires before the fetcher has settled:
\* the signal is aborted, and a fetcher that honours it rejects
TimerFires ==
    /\ frame # None
    /\ frame.pc = "fetching"
    /\ ~frame.timedOut
    /\ frame' = IF frame.honoursSignal
                THEN [frame EXCEPT !.timedOut = TRUE, !.pc = "rejected",
                                   !.caught = Some(FetchRejection(frame, AbortError))]
                ELSE [frame EXCEPT !.timedOut = TRUE]
    /\ UNCHANGED analyzerVars

\* the fetcher settles by itself and fetchFeed runs on to the await of
\* response.text()
FetcherSettles ==
    /\ frame # None
    /\ frame.pc = "fetching"
    /\ \E outcome \in FeedFetcherOutcomes :
         LET f == [frame EXCEPT !.outcome = Some(outcome)]
         IN  frame' =
               IF outcome.kind = "rejection"
               THEN [f EXCEPT !.pc = "rejected",
                              !.caught = Some(FetchRejection(f, outcome.error))]
               ELSE IF ~outcome.ok
               THEN [f EXCEPT !.pc = "rejected",
                              !.caught = Some(FeedFetchError(<< "Feed responded with HTTP", outcome.status,
                                                                "for" >> \o f.url,
                                                             "http-error", None))]
               ELSE [f EXCEPT !.pc = "reading"]
    /\ UNCHANGED analyzerVars

\* response.text() settles and fetchFeed runs to its end
BodySettles ==
    /\ frame # None
    /\ frame.pc = "reading"
    /\ frame' = ReadBody(frame, frame.outcome[1].body)
    /\ UNCHANGED analyzerVars

NextFetchFeed == fetchFeedCall \/ TimerFires \/ FetcherSettles \/ BodySettles

SpecFetchFeed == InitFetchFeed /\ [][NextFetchFeed]_vars

-----------------------------------------------------------------------------
(* src/blogs.ts: extractFeedUrls on its own *)

\* the largest maxBlogs of a call
MaxBlogs == 3

\* the largest number of language groups of a directory
MaxGroups == 2

\* String.prototype.trim and toLowerCase on the strings of the model
Trim(s) ==
    IF s = " Design " THEN "Design"
    ELSE IF s = "  " THEN ""
    ELSE s

ToLowerCase(s) ==
    IF s = "EN" THEN "en"
    ELSE IF s = "Design" THEN "design"
    ELSE IF s = "Development" THEN "development"
    ELSE s

BlogCategory(title, sites) == [title |-> title, sites |-> sites]

BlogLanguageGroup(language, categories) == [language |-> language, categories |-> categories]

\* the language groups of the directories: the two of the sample directory
\* of the tests and one whose only category has no site
LanguageGroups ==
    {BlogLanguageGroup("en", << BlogCategory("Development", << "sample", "secondary" >>),
                                BlogCategory("Design", << "third" >>) >>),
     BlogLanguageGroup("es", << BlogCategory("Development", << "es" >>) >>),
     BlogLanguageGroup("en", << BlogCategory("Design", << >>) >>)}

BlogsDirectories == UNION {[1..n -> LanguageGroups] : n \in 0..MaxGroups}

\* maxBlogs must be a non-negative integer when provided
MaxBlogsInvalid(maxBlogs) ==
    maxBlogs # Undefined /\ (~IsInteger(maxBlogs) \/ maxBlogs.n < 0)

\* createNormalizedSet, of an optional list: None for undefined, for an
\* empty list and for a list of blank strings
RECURSIVE NormalizedSetOf(_)
NormalizedSetOf(values) ==
    IF values = << >> THEN {}
    ELSE LET trimmed == Trim(Head(values))
         IN  (IF trimmed = "" THEN {} ELSE {ToLowerCase(trimmed)})
                 \cup NormalizedSetOf(Tail(values))

createNormalizedSet(values) ==
    IF values = None THEN None
    ELSE IF Len(values[1]) = 0 THEN None
    ELSE IF NormalizedSetOf(values[1]) = {} THEN None
    ELSE Some(NormalizedSetOf(values[1]))

\* languages ?? (language ? [language] : undefined)
LanguageValues(opts) ==
    IF opts.languages # None THEN opts.languages
    ELSE IF opts.language # None THEN Some(<< opts.language[1] >>)
    ELSE None

Passes(filter, value) == filter = None \/ ToLowerCase(value) \in filter[1]

\* The three loops of extractFeedUrls, from the site of index s of the
\* category of index c of the group of index g on, feeds being the URLs
\* pushed so far: the URLs the function returns.
RECURSIVE Traverse(_, _, _, _, _, _, _, _)
Traverse(blogs, g, c, s, feeds, maxBlogs, languageFilter, categoryFilter) ==
    IF g > Len(blogs) THEN feeds
    ELSE IF ~Passes(languageFilter, blogs[g].language)
    THEN Traverse(blogs, g + 1, 1, 1, feeds, maxBlogs, languageFilter, categoryFilter)
    ELSE IF c > Len(blogs[g].categories)
    THEN Traverse(blogs, g + 1, 1, 1, feeds, maxBlogs, languageFilter, categoryFilter)
    ELSE IF ~Passes(categoryFilter, blogs[g].categories[c].title)
    THEN Traverse(blogs, g, c + 1, 1, feeds, maxBlogs, languageFilter, categoryFilter)
    ELSE IF s > Len(blogs[g].categories[c].sites)
    THEN Traverse(blogs, g, c + 1, 1, feeds, maxBlogs, languageFilter, categoryFilter)
    ELSE LET pushed == Append(feeds, blogs[g].categories[c].sites[s])
         IN  IF maxBlogs # Undefined /\ Len(pushed) >= maxBlogs.n
             THEN pushed
             ELSE Traverse(blogs, g, c, s + 1, pushed, maxBlogs, languageFilter, categoryFilter)

MaxBlogsError == Err("RangeError", "maxBlogs must be a non-negative integer when provided",
                     "extractFeedUrls")

InitExtract ==
    /\ NoAnalyzerCall
    /\ frame \in [blogs : BlogsDirectories,
                  options : [maxBlogs : {Undefined, Num(-1), Half(1)}
                                            \cup {Num(n) : n \in 0..MaxBlogs},
                             language : {None, Some("es")},
                             languages : {None, Some(<< "EN" >>), Some(<< "  " >>)},
                             categories : {None, Some(<< " Design " >>)}],
                  pc : {"idle"}, caught : {None}, value : {None}]

extractFeedUrlsCall ==
    /\ frame # None
    /\ frame.pc = "idle"
    /\ frame' =
         IF MaxBlogsInvalid(frame.options.maxBlogs)
         THEN [frame EXCEPT !.pc = "threw", !.caught = Some(MaxBlogsError)]
         ELSE [frame EXCEPT !.pc = "returned",
                            !.value = Some(Traverse(frame.blogs, 1, 1, 1, << >>,
                                                    frame.options.maxBlogs,
                                                    createNormalizedSet(LanguageValues(frame.options)),
                                                    createNormalizedSet(frame.options.categories)))]
    /\ UNCHANGED analyzerVars

NextExtract == extractFeedUrlsCall

SpecExtract == InitExtract /\ [][NextExtract]_vars

-----------------------------------------------------------------------------
(* The worker of analyzeFeeds on its own, for one feed and with an injected  *)
(* clock that may return any number.                                         *)

\* the largest number of milliseconds the injected clock returns
MaxReading == 2

ClockReadings ==
    {Finite(n) : n \in 0..MaxReading}
    \cup {MaxValue(1), MaxValue(-1), NotANumber, Infinite(1), Infinite(-1)}

\* the worker is called for the feed b, the one without items, whose fetch
\* may fail
InitWorker ==
    /\ NoAnalyzerCall
    /\ frame = [pc |-> "idle", feedUrl |-> "b", startedAt |-> None, finishedAt |-> None,
                result |-> NewResult("b"), completed |-> 0, progress |-> << >>]

\* the worker from its first line to the await of fetchFeed
workerCall ==
    /\ frame # None
    /\ frame.pc = "idle"
    /\ \E reading \in ClockReadings :
         frame' = [frame EXCEPT !.pc = "fetching", !.startedAt = Some(reading)]
    /\ UNCHANGED analyzerVars

\* fetchFeed settles and the worker runs to its return: the try or the catch
\* block, the finally block and the progress update
workerFetchSettles ==
    /\ frame # None
    /\ frame.pc = "fetching"
    /\ \E reading \in ClockReadings :
         \E tried \in {[frame.result EXCEPT !.feed = Some(FeedOf(frame.feedUrl))]}
                        \cup {CatchError(frame.result, error) :
                                error \in FetchFailures(frame.feedUrl)} :
            LET timed == SetDuration(tried, frame.startedAt[1], reading)
                unit == [BlankRunner EXCEPT !.result = timed]
            IN  frame' = [frame EXCEPT !.pc = "returned", !.finishedAt = Some(reading),
                                       !.result = timed, !.completed = @ + 1,
                                       !.progress = Append(@, ProgressUpdate(unit, frame.completed + 1, 1))]
    /\ UNCHANGED analyzerVars

NextWorker == workerCall \/ workerFetchSettles

SpecWorker == InitWorker /\ [][NextWorker]_vars

-----------------------------------------------------------------------------
(* The worker of analyzeFeeds on its own, with the default clock, for a feed *)
(* with several recent items and an OllamaClient as analysis client.  The    *)
(* frame keeps a log of what the unit did, in the order it did it.           *)

\* a feed with three items that reach the analysis client and two that do not
RecentFeed ==
    [title |-> "C",
     items |-> << Item("first", Some(IsoString(Date(2025, 11, 20))), Some("First post")),
                  Item("stale", Some(IsoString(Date(2024, 6, 1))), Some("Stale post")),
                  Item("second", Some(IsoString(Date(2025, 11, 25))), Some("Second post")),
                  Item("untold", Some(IsoString(Date(2025, 11, 26))), None),
                  Item("third", Some(IsoString(Date(2025, 12, 1))), Some("Third post")) >>]

\* the feeds the worker fetches
WorkerFeeds == {RecentFeed, FeedOf("a"), FeedOf("b")}

\* a decision of the model that the text is not relevant, parsed
parseIrrelevantDecision(answer) ==
    [relevant |-> FALSE, confidence |-> None, reason |-> None, tags |-> None,
     rawResponse |-> answer]

\* the failures OllamaClient.analyze ends with when its retries are used up:
\* by network failures, by timeouts, by answers 500 or 429
UnavailableErrors ==
    {OllamaUnavailableError(cause, MaxRetries + 1) :
        cause \in {NetworkError, OllamaTimeoutError,
                   OllamaRequestError("Ollama generation failed", 500),
                   OllamaRequestError("Ollama generation failed", 429)}}

\* the failures a call of analyze may end with
AnalyzeFinalErrors ==
    UnavailableErrors
    \cup {OllamaRequestError("Ollama generation failed", 400), OllamaParseError}

\* what the catch block of analyze makes of a failure, for the call's
\* gracefulDegradation: the substitute verdict or the rejection
SettlementOf(gracefulDegradation, error) ==
    LET f == Settle([gracefulDegradation |-> gracefulDegradation, pc |-> "requesting",
                     caught |-> None, value |-> None], error)
    IN  IF f.pc = "resolved"
        THEN [kind |-> "resolved", value |-> f.value[1], failure |-> Some(error)]
        ELSE [kind |-> "rejected", error |-> f.caught[1], failure |-> Some(error)]

\* what a call of analyze with these arguments settles with: a parsed
\* decision, or what its catch block makes of a failure
AnalyzeSettlements(arguments) ==
    {[kind |-> "resolved", value |-> parseDecision("decision"), failure |-> None],
     [kind |-> "resolved", value |-> parseIrrelevantDecision("decision"), failure |-> None]}
    \cup {SettlementOf(arguments.gracefulDegradation, e) : e \in AnalyzeFinalErrors}

LogEntry(event, title) == [event |-> event, title |-> title]

InitItems ==
    /\ NoAnalyzerCall
    /\ frame \in [pc : {"idle"}, feedUrl : {"c"}, feed : WorkerFeeds, startedAt : {Finite(0)},
                  pos : {0}, analyzedCount : {0}, relevantPosts : {<< >>}, cutoffTime : {0},
                  result : {NewResult("c")}, answers : {<< >>}, log : {<< >>},
                  completed : {0}, progress : {<< >>}]

\* the finally block, the completed counter, the progress update, the return
FinishItemsUnit(f, result) ==
    LET timed == SetDuration(result, f.startedAt, Clock)
        unit == [BlankRunner EXCEPT !.result = timed]
    IN  [f EXCEPT !.pc = "returned", !.result = timed, !.completed = @ + 1,
                  !.progress = Append(@, ProgressUpdate(unit, f.completed + 1, 1)),
                  !.log = Append(@, LogEntry("progress", f.feedUrl))]

\* the loop of analyzeFeedItems from position from to its next await, or to
\* its return and the rest of the worker
ItemsLoop(f, from) ==
    LET items == f.feed.items
        k == NextAnalyzed(items, from, f.cutoffTime)
    IN  IF k # 0
        THEN [f EXCEPT !.pc = "analyzing", !.pos = k, !.analyzedCount = @ + 1,
                       !.log = Append(@, LogEntry("analyze", items[k].title))]
        ELSE FinishItemsUnit(f, [f.result EXCEPT
                !.analyzedItems = Some(f.analyzedCount),
                !.relevantPosts = IF Len(f.relevantPosts) > 0 THEN Some(f.relevantPosts) ELSE None])

itemsWorkerCall ==
    /\ frame # None
    /\ frame.pc = "idle"
    /\ frame' = [frame EXCEPT !.pc = "fetching", !.startedAt = Clock,
                              !.log = Append(@, LogEntry("fetch", frame.feedUrl))]
    /\ UNCHANGED analyzerVars

itemsFetchSettles ==
    /\ frame # None
    /\ frame.pc = "fetching"
    /\ \/ LET fetched == [frame EXCEPT
                            !.result.feed = Some(frame.feed),
                            !.cutoffTime = subtractMonths(Now, normalizeMonths(Undefined)),
                            !.log = Append(@, LogEntry("fetched", frame.feedUrl))]
          IN  frame' = IF Len(frame.feed.items) > 0
                       THEN ItemsLoop(fetched, 1)
                       ELSE FinishItemsUnit(fetched, fetched.result)
       \/ \E error \in FetchFailures("b") :
            frame' = FinishItemsUnit([frame EXCEPT !.log = Append(@, LogEntry("fetch failed", frame.feedUrl))],
                                     CatchError(frame.result, error))
    /\ UNCHANGED analyzerVars

itemsAnalyzeSettles ==
    /\ frame # None
    /\ frame.pc = "analyzing"
    /\ \E settlement \in AnalyzeSettlements(AnalyzeArguments(frame.feed.items[frame.pos])) :
         LET item == frame.feed.items[frame.pos]
             f == [frame EXCEPT !.answers = Append(@, settlement),
                                !.log = Append(@, LogEntry("settled", item.title))]
         IN  frame' =
               IF settlement.kind = "rejected"
               THEN FinishItemsUnit(f, CatchError(f.result, settlement.error))
               ELSE ItemsLoop([f EXCEPT !.relevantPosts =
                                    IF settlement.value.relevant
                                    THEN Append(@, RelevantPost(item, settlement.value))
                                    ELSE @],
                              frame.pos + 1)
    /\ UNCHANGED analyzerVars

NextItems == itemsWorkerCall \/ itemsFetchSettles \/ itemsAnalyzeSettles

SpecItems == InitItems /\ [][NextItems]_vars

-----------------------------------------------------------------------------
(* src/utils.ts: asyncPool on its own, from its call to its first await *)

\* the signals asyncPool is called with: none, one that is not aborted, one
\* that was aborted with each of the reasons
PoolSignals ==
    {[hasSignal |-> FALSE, aborted |-> FALSE, reason |-> None],
     [hasSignal |-> TRUE, aborted |-> FALSE, reason |-> None]}
    \cup {[hasSignal |-> TRUE, aborted |-> TRUE, reason |-> Some(reason)] :
            reason \in AbortReasons}

InitPool ==
    /\ NoAnalyzerCall
    /\ frame \in [concurrency : ParallelOptions \ {Undefined}, total : 0..MaxFeeds,
                  signal : PoolSignals, pc : {"idle"}, caught : {None}, value : {None},
                  nextIndex : {0}, poolSize : {0}]

\* asyncPool from its call to the await of Promise.all(runners): the checks,
\* and the first pass of every runner's loop
asyncPoolCall ==
    /\ frame # None
    /\ frame.pc = "idle"
    /\ LET aborted == throwIfAborted(frame.signal.hasSignal, frame.signal)
       IN  frame' =
             IF ConcurrencyInvalid(frame.concurrency)
             THEN [frame EXCEPT !.pc = "rejected",
                                !.caught = Some(Err("RangeError", "concurrency must be a positive integer",
                                                    "asyncPool"))]
             ELSE IF EmptyInput(frame.total)
             THEN [frame EXCEPT !.pc = "resolved", !.value = Some(<< >>)]
             ELSE IF aborted # None
             THEN [frame EXCEPT !.pc = "rejected", !.caught = aborted]
             ELSE [frame EXCEPT !.pc = "running",
                                !.poolSize = poolSize(frame.concurrency.n, frame.total),
                                !.nextIndex = poolSize(frame.concurrency.n, frame.total)]
    /\ UNCHANGED analyzerVars

NextPool == asyncPoolCall

SpecPool == InitPool /\ [][NextPool]_vars

-----------------------------------------------------------------------------
(* Vocabulary of the properties *)

\* the concurrency limit of the call, when options.parallel is valid
Limit == IF options.parallel.kind = "undefined" THEN 3 ELSE options.parallel.n

\* v is a number that is no positive integer
NoPositiveInteger(v) == v.kind = "half" \/ (v.kind = "int" /\ v.n < 1)

ValidOptions == ~NoPositiveInteger(options.parallel) /\ ~NoPositiveInteger(options.months)

\* worker invocations started and not yet settled
InFlight == {r \in DOMAIN runners : runners[r].state \in {"fetching", "analyzing"}}

\* no continuation of the call is pending any more
Quiescent == phase \in {"resolved", "rejected"} /\ \A r \in DOMAIN runners : ~Active(r)

NoWorkDone ==
    /\ \A u \in Urls : fetchCalls[u] = 0
    /\ \A i \in DOMAIN analyzeCalls : analyzeCalls[i] = << >>
    /\ \A i \in DOMAIN invoked : invoked[i] = 0
    /\ progress = << >>
    /\ completed = 0

\* the message a thrown value carries
MessageOf(v) == IF v.kind = "error" THEN v.message ELSE v.text

\* the result of index i once its unit has finished: still held by its
\* runner, or stored in the results array
FinishedResultOf(i) ==
    IF results[i] # None THEN results[i]
    ELSE IF \E r \in DOMAIN runners : runners[r].state = "returned" /\ runners[r].index + 1 = i
    THEN Some(runners[CHOOSE r \in DOMAIN runners :
                        runners[r].state = "returned" /\ runners[r].index + 1 = i].result)
    ELSE None

-----------------------------------------------------------------------------
(* C1..C10 *)

\* C1: when analyzeFeeds resolves, the returned array has one entry per input
\* url and entry i is the result of feedUrls[i], whatever the completion order.
C1_ResultsInInputOrder ==
    phase = "resolved" =>
        /\ returned # None
        /\ Len(returned[1]) = Len(feedUrls)
        /\ \A i \in 1..Len(feedUrls) :
             /\ returned[1][i] # None
             /\ returned[1][i][1].feedUrl = feedUrls[i]

\* a resolved run of two different urls whose second unit finished first
C1_Witness ==
    /\ phase = "resolved"
    /\ Len(feedUrls) >= 2
    /\ feedUrls[1] # feedUrls[2]
    /\ progress[1].feedUrl = feedUrls[2]

\* C2: the number of worker invocations started and not settled never exceeds
\* the concurrency limit, also when there are more items than the limit.
C2_InFlightAtMostLimit ==
    ValidOptions => Cardinality(InFlight) <= Limit

\* more items than the limit, the limit reached, and a later item in flight
C2_Witness ==
    /\ ValidOptions
    /\ Len(feedUrls) > Limit
    /\ Cardinality(InFlight) = Limit
    /\ nextIndex > Limit

\* C3: the cursor hands out the indexes 0, 1, 2, ... once each and in order,
\* and a run that resolves has invoked the worker on every index exactly once.
C3_EveryIndexOnce ==
    /\ \A i \in DOMAIN invoked : invoked[i] = (IF i <= nextIndex THEN 1 ELSE 0)
    /\ nextIndex <= Len(feedUrls)
    /\ phase = "resolved" =>
         /\ DOMAIN invoked = 1..Len(feedUrls)
         /\ \A i \in 1..Len(feedUrls) : invoked[i] = 1

\* a resolved run in which two runners shared three items
C3_Witness ==
    /\ phase = "resolved"
    /\ Len(runners) = 2
    /\ Len(feedUrls) = 3
    /\ \A i \in 1..3 : invoked[i] = 1

\* C4 as stated: every run that has started its units ends with exactly
\* len(feedUrls) progress events, numbered 1, 2, ..., total.
C4_Original ==
    (Quiescent /\ runners # << >>) =>
        /\ Len(progress) = Len(feedUrls)
        /\ \A k \in 1..Len(progress) : progress[k].completed = k

\* C4 as amended: the events emitted so far are numbered 1, 2, ..., k with no
\* gap or repeat and carry total = len(feedUrls); a run that resolves has
\* emitted exactly len(feedUrls) of them.
C4_ProgressCounts ==
    /\ Len(progress) = completed
    /\ Len(progress) <= Len(feedUrls)
    /\ \A k \in 1..Len(progress) :
         /\ progress[k].completed = k
         /\ progress[k].total = Len(feedUrls)
    /\ phase = "resolved" => Len(progress) = Len(feedUrls)

\* a resolved run of three units whose first event is not the first url's
C4_Witness ==
    /\ phase = "resolved"
    /\ Len(progress) = 3
    /\ progress[3].completed = 3
    /\ progress[1].feedUrl # feedUrls[1]

\* C5: within one run fetchFeed is invoked at most once for each url.
C5_OneFetchPerUrl ==
    \A u \in Urls : fetchCalls[u] <= 1

\* C6: in a resolved run all occurrences of one url carry the same fetch
\* outcome: the same feed, or the same fetch failure.
C6_SameOutcomePerUrl ==
    phase = "resolved" =>
        \A i, j \in 1..Len(feedUrls) :
            feedUrls[i] = feedUrls[j] =>
                /\ returned[1][i][1].feed = returned[1][j][1].feed
                /\ returned[1][i][1].feed = None =>
                       returned[1][i][1].error = returned[1][j][1].error

\* C7: a rejection of fetchFeed or of analyze marks that unit's result
\* rejected with the error raised (the same object when it is an Error, the
\* same message always) and nothing else: a unit that raised nothing is
\* fulfilled, the call never rejects with a unit's error, and a run that
\* resolves holds a result for every index.
C7_FailureIsolated ==
    /\ \A i \in DOMAIN raised :
         LET res == FinishedResultOf(i)
         IN  res # None =>
               IF raised[i] # None
               THEN /\ res[1].status = "rejected"
                    /\ res[1].error # None
                    /\ res[1].error[1].message = MessageOf(raised[i][1])
                    /\ IsError(raised[i][1]) => res[1].error[1] = raised[i][1]
               ELSE /\ res[1].status = "fulfilled"
                    /\ res[1].error = None
    /\ \A i \in DOMAIN raised : raised[i] # None => FinishedResultOf(i) # None
    /\ phase = "rejected" =>
         \A i \in DOMAIN raised :
            raised[i] # None => thrown[1].message # MessageOf(raised[i][1])
    /\ phase = "resolved" => \A i \in 1..Len(feedUrls) : returned[1][i] # None

\* a resolved run with a failed fetch, a failed classification and a
\* fulfilled unit
C7_Witness ==
    /\ phase = "resolved"
    /\ \E i, j, k \in 1..Len(feedUrls) :
         /\ raised[i] \in {Some(e) : e \in FetchFailures(feedUrls[i])}
         /\ raised[j] \in {Some(e) : e \in AnalyzeFailures}
         /\ raised[k] = None
         /\ returned[1][i][1].status = "rejected"
         /\ returned[1][j][1].status = "rejected"
         /\ returned[1][k][1].status = "fulfilled"

\* C8: with a parallel or a months option that is no positive integer the
\* call rejects with a RangeError and nothing has been fetched, classified
\* or reported.
C8_InvalidOptionsRejected ==
    (~ValidOptions /\ phase # "idle") =>
        /\ phase = "rejected"
        /\ thrown # None
        /\ thrown[1].name = "RangeError"
        /\ runners = << >>
        /\ NoWorkDone

\* a rejected call whose months option alone is invalid, with feeds to do
C8_Witness ==
    /\ phase = "rejected"
    /\ NoPositiveInteger(options.months)
    /\ ~NoPositiveInteger(options.parallel)
    /\ Len(feedUrls) > 0

\* what a call cancelled with the given reason fails with
CancellationError(reason) ==
    IF reason.kind = "error" THEN reason
    ELSE IF reason.kind = "string"
    THEN [kind |-> "error", name |-> "AbortError", message |-> reason.text,
          origin |-> "throwIfAborted"]
    ELSE [kind |-> "error", name |-> "AbortError",
          message |-> "The operation was aborted", origin |-> "throwIfAborted"]

\* C9 as stated: a call with valid options and a signal that is already
\* aborted rejects with the cancellation reason and does no work, for any
\* list of feed urls.
C9_Original ==
    (signal.beforeCall /\ ValidOptions /\ phase # "idle") =>
        /\ phase = "rejected"
        /\ thrown = Some(CancellationError(signal.reason[1]))
        /\ NoWorkDone

\* C9 as amended: such a call does no work for any list; it rejects with the
\* cancellation reason when the list is not empty and resolves with an empty
\* result when it is.
C9_AbortedBeforeCall ==
    (signal.beforeCall /\ ValidOptions /\ phase # "idle") =>
        /\ NoWorkDone
        /\ runners = << >>
        /\ Len(feedUrls) > 0 =>
             /\ phase = "rejected"
             /\ thrown = Some(CancellationError(signal.reason[1]))
        /\ Len(feedUrls) = 0 =>
             /\ phase = "resolved"
             /\ returned = Some(<< >>)

\* a call on a non-empty list rejected with a reason that was a string
C9_Witness ==
    /\ signal.beforeCall
    /\ phase = "rejected"
    /\ Len(feedUrls) > 0
    /\ signal.reason[1].kind = "string"
    /\ thrown[1].name = "AbortError"

\* C10: while the signal is aborted no step starts a worker or moves the
\* cursor, and no step takes a unit in flight anywhere but onward.
C10_NoDispatchAfterAbort ==
    [][signal.aborted =>
          /\ invoked' = invoked
          /\ nextIndex' = nextIndex
          /\ fetchCalls' = fetchCalls
          /\ \A r \in DOMAIN runners :
                runners[r].state \in {"fetching", "analyzing"} =>
                    runners'[r].state \in {"fetching", "analyzing", "returned"}]_vars

\* a run aborted after its start: the finished unit's result is stored, its
\* runner has stopped and the next item was never claimed
C10_Witness ==
    /\ signal.aborted
    /\ ~signal.beforeCall
    /\ nextIndex < Len(feedUrls)
    /\ \E r \in DOMAIN runners :
         /\ runners[r].state = "failed"
         /\ results[1] # None
    /\ invoked[nextIndex + 1] = 0

-----------------------------------------------------------------------------
(* C11..C20 *)

\* the signal was aborted after the call, while units were pending
AbortedMidRun == signal.aborted /\ ~signal.beforeCall

\* C11: when the signal is aborted while items are undispatched or in flight
\* and every unit in flight settles, the call eventually rejects, and with
\* the cancellation's reason: the very Error given to abort() when it is one.
C11_AbortEventuallyRejects ==
    AbortedMidRun ~>
        (/\ signal.aborted
         /\ phase = "rejected"
         /\ thrown = Some(CancellationError(signal.reason[1])))

\* a call rejected with the Error given to abort() while an item was still
\* undispatched
C11_Witness ==
    /\ AbortedMidRun
    /\ phase = "rejected"
    /\ nextIndex < Len(feedUrls)
    /\ IsError(signal.reason[1])
    /\ thrown = signal.reason

\* C12: every fetchFeed call and every analyze call awaited by a unit of a
\* call that was given a signal receives that signal.
C12_SignalForwarded ==
    options.hasSignal =>
        \A r \in DOMAIN runners :
            runners[r].state \in {"fetching", "analyzing"} =>
                runners[r].call[1].signal # None

\* C13: a rejected call carries a configuration error raised before any work
\* started, or the cancellation's reason, whatever fetchFeed, the analysis
\* client, onProgress and the clock do.
C13_OnlyConfigurationOrCancellation ==
    phase = "rejected" =>
        \/ thrown[1].name = "RangeError" /\ NoWorkDone
        \/ signal.aborted /\ thrown = Some(CancellationError(signal.reason[1]))

\* C14: every result of a finished unit that is rejected has an error and
\* neither feed nor relevantPosts, and every one that is fulfilled has a feed.
C14_ResultShape ==
    \A i \in DOMAIN results :
        LET res == FinishedResultOf(i)
        IN  res # None =>
              /\ res[1].status = "rejected" =>
                    /\ res[1].error # None
                    /\ res[1].feed = None
                    /\ res[1].relevantPosts = None
              /\ res[1].status = "fulfilled" => res[1].feed # None

\* C15: a call made without an analysis client rejects before any work
\* starts: no fetchFeed call is made.
C15_MissingClientRejectsCall ==
    (options.analysisClient = "default" /\ phase # "idle") =>
        /\ phase = "rejected"
        /\ \A u \in Urls : fetchCalls[u] = 0

\* C16: in a call made without an analysis client every feed ends rejected
\* with the error "analysisClient dependency is required", whatever the feed
\* contains.
C16_EveryFeedRejected ==
    (options.analysisClient = "default" /\ options.onProgress = "returns") =>
        \A i \in DOMAIN results :
            LET res == FinishedResultOf(i)
            IN  res # None =>
                  /\ res[1].status = "rejected"
                  /\ res[1].error # None
                  /\ res[1].error[1].message = "analysisClient dependency is required"

\* the cutoff of the call, written out: the clock reads 5 December 2025, the
\* window is 3 months by default and 2 months otherwise
CutoffDay ==
    IF options.months.kind = "undefined" THEN GetTime(Date(2025, 9, 5))
    ELSE GetTime(Date(2025, 10, 5))

\* the item has a publish date that parses and is not before the cutoff, and
\* it has a description
Eligible(item) ==
    /\ item.publishedAt # None
    /\ item.description # None
    /\ item.description # Some("")
    /\ IF item.publishedAt[1].kind = "iso"
       THEN GetTime(item.publishedAt[1].date) >= CutoffDay
       ELSE FALSE

\* the titles of the eligible items of the feed of url, in feed order
EligibleTitles(url) ==
    LET items == FeedOf(url).items
        picked == SelectSeq(items, Eligible)
    IN  [k \in 1..Len(picked) |-> picked[k].title]

\* s is an initial part of t
IsPrefix(s, t) == Len(s) <= Len(t) /\ \A k \in 1..Len(s) : s[k] = t[k]

\* C17: the analysis client is invoked only for items that have a description
\* and a publish date that parses and is at or after the cutoff, in feed
\* order; a unit that ends fulfilled has invoked it for every such item, the
\* one dated exactly at the cutoff included.
C17_OnlyEligibleItemsAnalyzed ==
    \A i \in DOMAIN analyzeCalls :
        /\ IsPrefix(analyzeCalls[i], EligibleTitles(feedUrls[i]))
        /\ LET res == FinishedResultOf(i)
           IN  (res # None /\ res[1].status = "fulfilled") =>
                   analyzeCalls[i] = EligibleTitles(feedUrls[i])

\* a fulfilled unit of a feed with old, undated, garbled and text-less items
\* that analyzed the item at the cutoff and nothing else
C17_Witness ==
    \E i \in DOMAIN analyzeCalls :
        /\ feedUrls[i] = "a"
        /\ results[i] # None
        /\ results[i][1].status = "fulfilled"
        /\ analyzeCalls[i] = << "edge" >>
        /\ results[i][1].analyzedItems = Some(1)

\* the number of calls of analyze made for the item of that title by unit i
TimesAnalyzed(i, title) ==
    Cardinality({k \in 1..Len(analyzeCalls[i]) : analyzeCalls[i][k] = title})

\* C18: a recent item that has content and no description is sent to the
\* analysis client exactly once by a unit that ends fulfilled.
C18_ContentIsAnalyzed ==
    \A i \in DOMAIN results :
        (results[i] # None /\ results[i][1].status = "fulfilled" /\ feedUrls[i] = "a") =>
            TimesAnalyzed(i, "llm") = 1

\* the verdict's reason names the topic ("LLM"); the texts of the items that
\* reach the analysis client and their verdicts' tags name it nowhere
HasTopicSignals(analysis) == analysis.reason = Some("LLM explained")

\* C19: a verdict that is relevant but carries no topic signal is counted as
\* analyzed and kept out of relevantPosts: every post in the relevantPosts of
\* a finished unit carries a topic signal.
C19_FalsePositivesExcluded ==
    \A i \in DOMAIN results :
        LET res == FinishedResultOf(i)
        IN  (res # None /\ res[1].relevantPosts # None) =>
                \A k \in 1..Len(res[1].relevantPosts[1]) :
                    HasTopicSignals(res[1].relevantPosts[1][k].analysis)

\* what a result entry and the progress event of its unit have in common
Outcome(x) == << x.feedUrl, x.status, x.error, x.durationMs >>

\* the indexes whose unit has finished
Finished == {i \in DOMAIN results : FinishedResultOf(i) # None}

\* C20: the progress events and the results of the finished units carry the
\* same outcomes (feedUrl, status, error, durationMs), each as often in the
\* events as in the results; a unit whose fetchFeed or analyze failed has the
\* error in its result, and so in its event.
C20_ErrorInResultAndProgress ==
    /\ Cardinality(Finished) = Len(progress)
    /\ \A k \in 1..Len(progress) :
         /\ Cardinality({j \in 1..Len(progress) : Outcome(progress[j]) = Outcome(progress[k])})
              = Cardinality({i \in Finished : Outcome(FinishedResultOf(i)[1]) = Outcome(progress[k])})
         /\ progress[k].status = "rejected" <=> progress[k].error # None
         /\ progress[k].durationMs # None
    /\ \A i \in Finished :
         raised[i] # None =>
            /\ FinishedResultOf(i)[1].error # None
            /\ FinishedResultOf(i)[1].error[1].message = MessageOf(raised[i][1])

\* a resolved run with a failed fetch and a fulfilled unit, the failure's
\* error being in the result entry and in a rejected progress event
C20_Witness ==
    /\ phase = "resolved"
    /\ \E i, j \in 1..Len(feedUrls) : \E k \in 1..Len(progress) :
         /\ returned[1][i][1].status = "rejected"
         /\ returned[1][i][1].error = Some(Err("FeedFetchError", "boom", "fetchFeed"))
         /\ Outcome(progress[k]) = Outcome(returned[1][i][1])
         /\ returned[1][j][1].status = "fulfilled"

-----------------------------------------------------------------------------
(* C21..C30 *)

\* C21: a call with an empty list and valid options resolves at once with an
\* empty result: no runner is started, the worker is never invoked and no
\* progress event is emitted.
C21_EmptyInputResolves ==
    (Len(feedUrls) = 0 /\ ValidOptions /\ phase # "idle") =>
        /\ phase = "resolved"
        /\ returned = Some(<< >>)
        /\ runners = << >>
        /\ NoWorkDone

\* such a call, resolved, made with the default concurrency
C21_Witness ==
    /\ Len(feedUrls) = 0
    /\ phase = "resolved"
    /\ options.parallel = Undefined
    /\ returned = Some(<< >>)

\* the items of the feed of url whose publish date parses and is at or after
\* the cutoff, whatever else they have
WithinWindow(url) ==
    LET dated(item) ==
            /\ item.publishedAt # None
            /\ IF item.publishedAt[1].kind = "iso"
               THEN GetTime(item.publishedAt[1].date) >= CutoffDay
               ELSE FALSE
    IN  SelectSeq(FeedOf(url).items, dated)

\* C22: the verbose events of a unit whose feed was fetched start with the
\* count of the feed's items dated at or after the cutoff and go on with one
\* "analyzing post" event for each call of analyze, naming its item, and
\* with no other.
C22_VerboseEvents ==
    \A i \in DOMAIN results :
        LET res == FinishedResultOf(i)
            events == VerboseMessages(i)
        IN  (res # None /\ res[1].feed # None) =>
                /\ Len(events) = 1 + Len(analyzeCalls[i])
                /\ events[1] = [kind |-> "found", count |-> Len(WithinWindow(feedUrls[i]))]
                /\ \A k \in 1..Len(analyzeCalls[i]) :
                     events[k + 1] = [kind |-> "analyzing", title |-> analyzeCalls[i][k]]

\* the month that lies the window before the reference month, as a count of
\* months since year 0
TargetMonth == options.date.y * 12 + options.date.m - options.months

\* C23: subtractMonths returns the day of the reference date in the month
\* that lies the window before the reference month, or the last day of that
\* month when it has no such day: the cutoff is never in a later month.
C23_CutoffClamps ==
    (phase = "resolved" /\ returned # None) =>
        LET cutoff == returned[1]
            y == TargetMonth \div 12
            m == TargetMonth % 12
        IN  /\ cutoff.y * 12 + cutoff.m = TargetMonth
            /\ cutoff.d = Min(options.date.d, DaysInMonth(y, m))

\* analyze has settled
AnalyzeSettled == frame # None /\ frame.pc \in {"resolved", "rejected"}

\* the failure is one the client retries: a network TypeError, a timeout, an
\* HTTP 5xx or 429
Transient(error) ==
    \/ error.name \in {"TypeError", "OllamaTimeoutError"}
    \/ error.name = "OllamaRequestError" /\ (error.status >= 500 \/ error.status = 429)

\* C24 as stated: with gracefulDegradation enabled analyze never rejects,
\* whatever failure occurred.
C24_Original ==
    (frame # None /\ frame.gracefulDegradation) => frame.pc # "rejected"

\* C24 as amended: with gracefulDegradation enabled, a call whose retries
\* were used up by transient failures resolves with the substitute verdict
\* (not relevant, confidence 0, the failure's message as reason, an empty
\* rawResponse); analyze rejects only with a failure that is not transient.
C24_GracefulDegradation ==
    (AnalyzeSettled /\ frame.gracefulDegradation /\ frame.caught # None) =>
        LET error == frame.caught[1]
        IN  IF error.name = "OllamaUnavailableError" \/ Transient(error)
            THEN /\ frame.pc = "resolved"
                 /\ frame.value # None
                 /\ frame.value[1].relevant = FALSE
                 /\ frame.value[1].confidence = Some(0)
                 /\ frame.value[1].reason = Some(error.message)
                 /\ frame.value[1].rawResponse = ""
            ELSE frame.pc = "rejected"

\* a call that resolved with the substitute verdict after three failed
\* attempts
C24_Witness ==
    /\ AnalyzeSettled
    /\ frame.gracefulDegradation
    /\ frame.pc = "resolved"
    /\ frame.requests = 3
    /\ Len(frame.failures) = 3
    /\ frame.value[1].confidence = Some(0)

\* C25: the client never makes more than maxRetries + 1 attempts; when every
\* attempt failed with a transient failure and the signal was not aborted,
\* it has made exactly maxRetries + 1 attempts and executeWithRetry throws an
\* OllamaUnavailableError with attempts = maxRetries + 1 and the last
\* failure as cause, which analyze rejects with unless it degrades gracefully.
C25_RetriesBounded ==
    frame # None =>
        /\ frame.requests <= frame.maxRetries + 1
        /\ (/\ AnalyzeSettled
            /\ ~frame.aborted
            /\ frame.requests > 0
            /\ Len(frame.failures) = frame.requests
            /\ \A k \in 1..Len(frame.failures) : Transient(frame.failures[k])) =>
               /\ frame.requests = frame.maxRetries + 1
               /\ frame.caught # None
               /\ frame.caught[1].name = "OllamaUnavailableError"
               /\ frame.caught[1].attempts = frame.maxRetries + 1
               /\ frame.caught[1].cause = frame.failures[Len(frame.failures)]
               /\ ~frame.gracefulDegradation => frame.pc = "rejected"

\* a call with maxRetries = 2 rejected after three attempts, the last of
\* which answered 429
C25_Witness ==
    /\ AnalyzeSettled
    /\ frame.pc = "rejected"
    /\ frame.maxRetries = 2
    /\ frame.requests = 3
    /\ frame.caught[1].name = "OllamaUnavailableError"
    /\ frame.caught[1].cause.name = "OllamaRequestError"
    /\ frame.caught[1].cause.status = 429

FetchFeedRejected == frame # None /\ frame.pc = "rejected"

\* C27: whatever fetchFeed rejects with is a FeedFetchError of one of the
\* five kinds: invalid-url for a URL that does not parse or is not http(s),
\* timeout for a fetch aborted by the timer, fetch-error for any other
\* rejection of the fetcher, http-error for a response that is not ok,
\* parse-error for a body that cannot be read or parsed.
C27_TypedFailures ==
    FetchFeedRejected =>
        LET error == frame.caught[1]
            protocol == UrlProtocol(frame.url)
        IN  /\ error.name = "FeedFetchError"
            /\ error.errorKind \in FeedFetchErrorKinds
            /\ error.errorKind =
                 IF protocol = None THEN "invalid-url"
                 ELSE IF protocol[1] \notin {"http:", "https:"} THEN "invalid-url"
                 ELSE IF frame.outcome = None THEN "timeout"
                 ELSE IF frame.outcome[1].kind = "rejection" THEN "fetch-error"
                 ELSE IF ~frame.outcome[1].ok THEN "http-error"
                 ELSE "parse-error"

\* the feed URLs of the sites of the directory that pass the language and
\* category filters of the call, in traversal order
PassingFeeds ==
    Traverse(frame.blogs, 1, 1, 1, << >>, Undefined,
             createNormalizedSet(LanguageValues(frame.options)),
             createNormalizedSet(frame.options.categories))

\* C28: for a non-negative integer maxBlogs, extractFeedUrls returns the
\* first maxBlogs feed URLs, in traversal order, of the sites that pass the
\* filters, all of them when there are fewer: never more than maxBlogs.
C28_MaxBlogsLimit ==
    (/\ frame # None
     /\ frame.pc # "idle"
     /\ frame.options.maxBlogs # Undefined
     /\ IsInteger(frame.options.maxBlogs)
     /\ frame.options.maxBlogs.n >= 0) =>
        /\ frame.pc = "returned"
        /\ Len(frame.value[1]) <= frame.options.maxBlogs.n
        /\ frame.value[1] = SubSeq(PassingFeeds, 1,
                                   Min(frame.options.maxBlogs.n, Len(PassingFeeds)))

\* C29: when a call cancelled in mid-run has rejected, no unit is in flight
\* any more: no fetch and no classification is pending whose completion, and
\* whose progress event, would come after the rejection.
C29_RejectsOnlyWhenQuiescent ==
    (phase = "rejected" /\ AbortedMidRun) => InFlight = {}

\* C30: the analyzedItems of every fulfilled result is the number of calls
\* of analyze made for its feed occurrence, 0 when the feed has no items or
\* none that is eligible.
C30_AnalyzedItemsCounted ==
    \A i \in DOMAIN results :
        LET res == FinishedResultOf(i)
        IN  (res # None /\ res[1].status = "fulfilled") =>
                res[1].analyzedItems = Some(Len(analyzeCalls[i]))

-----------------------------------------------------------------------------
(* C31..C40 *)

\* the worker has returned the result of its unit
WorkerReturned == frame # None /\ frame.pc = "returned"

\* the number of milliseconds from reading a to reading b is negative
Backwards(a, b) ==
    /\ a.kind = "finite"
    /\ b.kind = "finite"
    /\ b.n < a.n

\* C31 as stated: the duration of a unit, fulfilled or rejected, is absent
\* when one of the two readings is not finite and max(0, end - start)
\* otherwise.
C31_Original ==
    WorkerReturned =>
        LET start == frame.startedAt[1]
            end == frame.finishedAt[1]
        IN  IF ~NumberIsFinite(start) \/ ~NumberIsFinite(end)
            THEN frame.result.durationMs = None
            ELSE frame.result.durationMs = Some(MathMaxZero(Subtract(end, start)))

\* C31 as amended: the duration is absent when one of the two readings is
\* not finite or their difference is not finite, and max(0, end - start)
\* otherwise: it is never negative, and 0 when the clock went backwards.  The
\* progress update carries the same duration.
C31_DurationNeverNegative ==
    WorkerReturned =>
        LET start == frame.startedAt[1]
            end == frame.finishedAt[1]
            duration == frame.result.durationMs
        IN  /\ IF ~NumberIsFinite(start) \/ ~NumberIsFinite(end)
               THEN duration = None
               ELSE IF ~NumberIsFinite(Subtract(end, start))
               THEN duration = None
               ELSE duration = Some(MathMaxZero(Subtract(end, start)))
            /\ duration # None =>
                 /\ NumberIsFinite(duration[1])
                 /\ duration[1].kind = "finite" => duration[1].n >= 0
                 /\ duration[1].kind = "max" => duration[1].sign > 0
            /\ Backwards(start, end) => duration = Some(Finite(0))
            /\ frame.progress[1].durationMs = duration

\* a rejected unit whose clock went backwards, with duration 0
C31_Witness ==
    /\ WorkerReturned
    /\ frame.result.status = "rejected"
    /\ Backwards(frame.startedAt[1], frame.finishedAt[1])
    /\ frame.result.durationMs = Some(Finite(0))

\* the titles of the items the unit of the frame sent to the analysis
\* client, in call order
ItemCalls ==
    LET entries == SelectSeq(frame.log, LAMBDA e : e.event = "analyze")
    IN  [j \in 1..Len(entries) |-> entries[j].title]

\* the position in the feed of the item of that title
ItemIndex(title) ==
    CHOOSE k \in 1..Len(frame.feed.items) : frame.feed.items[k].title = title

\* the calls of the unit that were answered with a verdict that is relevant,
\* as numbers of calls in call order
RelevantCalls ==
    SelectSeq([j \in 1..Len(frame.answers) |-> j],
              LAMBDA j : /\ frame.answers[j].kind = "resolved"
                         /\ frame.answers[j].value.relevant)

\* the unit of the frame has returned a fulfilled result
ItemsFulfilled ==
    /\ frame # None
    /\ frame.pc = "returned"
    /\ frame.result.status = "fulfilled"

\* C32: the relevant posts of a feed are, in feed order and each once, the
\* items that were sent to the analysis client and answered with a verdict
\* whose relevant is true, each with that verdict as its analysis; the
\* fulfilled result reports exactly them, or none.
C32_RelevantPostsAreVerdicts ==
    frame # None =>
        LET posts == frame.relevantPosts
        IN  /\ Len(posts) = Len(RelevantCalls)
            /\ \A n \in 1..Len(posts) :
                 LET j == RelevantCalls[n]
                     item == frame.feed.items[ItemIndex(ItemCalls[j])]
                 IN  /\ posts[n].title = item.title
                     /\ posts[n].link = item.link
                     /\ posts[n].publishedAt = item.publishedAt
                     /\ posts[n].analysis = frame.answers[j].value
                     /\ posts[n].analysis.relevant = TRUE
            /\ \A m, n \in 1..Len(posts) :
                 m < n => ItemIndex(posts[m].title) < ItemIndex(posts[n].title)
            /\ ItemsFulfilled =>
                 frame.result.relevantPosts = IF Len(posts) > 0 THEN Some(posts) ELSE None

\* a fulfilled result with two relevant posts, the first and the third item
\* of the feed that were analyzed, the second having been judged irrelevant
C32_Witness ==
    /\ ItemsFulfilled
    /\ frame.result.relevantPosts # None
    /\ Len(frame.result.relevantPosts[1]) = 2
    /\ frame.result.relevantPosts[1][1].title = "first"
    /\ frame.result.relevantPosts[1][2].title = "third"
    /\ frame.result.analyzedItems = Some(3)

\* analyze has resolved with the verdict parsed from a response
ResolvedWithDecision ==
    /\ frame # None
    /\ frame.pc = "resolved"
    /\ frame.caught = None

\* C33: a call that resolves with a parsed verdict after j failed attempts
\* made exactly j + 1 attempts, j <= maxRetries, every failure was transient,
\* and the verdict is the one parsed from the response: it carries nothing of
\* the failures.
C33_RetriesThenSucceeds ==
    ResolvedWithDecision =>
        /\ frame.requests = Len(frame.failures) + 1
        /\ Len(frame.failures) <= frame.maxRetries
        /\ \A k \in 1..Len(frame.failures) : Transient(frame.failures[k])
        /\ frame.value = Some(parseDecision("decision"))

\* a call with maxRetries = 2 that resolved at its third attempt, after a
\* network failure and an answer 500
C33_Witness ==
    /\ ResolvedWithDecision
    /\ frame.maxRetries = 2
    /\ frame.requests = 3
    /\ Len(frame.failures) = 2
    /\ frame.failures[1].name = "TypeError"
    /\ frame.failures[2].name = "OllamaRequestError"
    /\ frame.failures[2].status = 500
    /\ frame.value = Some(parseDecision("decision"))

\* the titles of the items of the frame's feed that have a description and a
\* publish date that parses and is at or after 5 September 2025, the cutoff
\* of the default window, in feed order
WorkerEligibleTitles ==
    LET eligible(item) ==
            /\ item.publishedAt # None
            /\ item.description # None
            /\ item.description # Some("")
            /\ IF item.publishedAt[1].kind = "iso"
               THEN GetTime(item.publishedAt[1].date) >= GetTime(Date(2025, 9, 5))
               ELSE FALSE
        picked == SelectSeq(frame.feed.items, eligible)
    IN  [k \in 1..Len(picked) |-> picked[k].title]

\* the positions of the log at which the event is found
LogPositions(event) == {n \in 1..Len(frame.log) : frame.log[n].event = event}

\* C34: the steps of a unit come in a fixed order.  The fetch is first and
\* its settling second; a call of analyze comes only after the fetch has
\* resolved, the calls are made for the eligible items in feed order, and
\* each has settled before the next is made and before the progress event;
\* the progress event is the unit's only one and its last step; a unit whose
\* fetch failed calls analyze for nothing.
C34_StepsInOrder ==
    frame # None =>
        LET log == frame.log
        IN  /\ Len(log) >= 1 => log[1].event = "fetch"
            /\ Len(log) >= 2 => log[2].event \in {"fetched", "fetch failed"}
            /\ \A n \in LogPositions("analyze") :
                 /\ n > 2
                 /\ log[2].event = "fetched"
                 /\ log[n - 1].event \in {"fetched", "settled"}
                 /\ n < Len(log) =>
                      /\ log[n + 1].event = "settled"
                      /\ log[n + 1].title = log[n].title
            /\ \A n \in LogPositions("settled") :
                 /\ log[n - 1].event = "analyze"
                 /\ log[n - 1].title = log[n].title
            /\ IsPrefix(ItemCalls, WorkerEligibleTitles)
            /\ Cardinality(LogPositions("progress")) <= 1
            /\ \A n \in LogPositions("progress") :
                 /\ n = Len(log)
                 /\ log[n - 1].event \in {"fetched", "fetch failed", "settled"}
                 /\ Cardinality(LogPositions("settled")) = Cardinality(LogPositions("analyze"))
            /\ frame.pc = "returned" <=> LogPositions("progress") # {}
            /\ LogPositions("fetch failed") # {} => LogPositions("analyze") = {}

\* a unit that made three calls of analyze, one after the other, and then
\* emitted its progress event
C34_Witness ==
    /\ frame # None
    /\ frame.pc = "returned"
    /\ Len(frame.log) = 9
    /\ ItemCalls = << "first", "second", "third" >>
    /\ frame.log[8].event = "settled"
    /\ frame.log[9].event = "progress"

\* the runners whose unit awaits a call of fetchFeed, and those whose unit
\* awaits a call of analyze
FetchesInFlight ==
    {r \in DOMAIN runners : runners[r].call # None /\ "url" \in DOMAIN runners[r].call[1]}

AnalysesInFlight ==
    {r \in DOMAIN runners :
        runners[r].call # None /\ "description" \in DOMAIN runners[r].call[1]}

\* C35: the pending calls of fetchFeed and the pending calls of analyze of
\* all units together never number more than the concurrency limit, and no
\* unit awaits more than one of them.
C35_ExternalCallsAtMostLimit ==
    ValidOptions =>
        /\ Cardinality(FetchesInFlight) + Cardinality(AnalysesInFlight) <= Limit
        /\ FetchesInFlight \cap AnalysesInFlight = {}
        /\ \A r \in DOMAIN runners :
             /\ r \in FetchesInFlight <=> runners[r].state = "fetching"
             /\ r \in AnalysesInFlight <=> runners[r].state = "analyzing"

\* three feeds under the limit 2: a fetch of the third feed and a call of
\* analyze pending side by side
C35_Witness ==
    /\ ValidOptions
    /\ Limit = 2
    /\ Len(feedUrls) = 3
    /\ Cardinality(FetchesInFlight) = 1
    /\ Cardinality(AnalysesInFlight) = 1
    /\ \E r \in FetchesInFlight : runners[r].index = 2

\* asyncPool has been called
PoolCalled == frame # None /\ frame.pc # "idle"

\* C36: asyncPool looks at the concurrency first, at the list second and at
\* the signal last: an invalid concurrency rejects with the RangeError for
\* every list and every signal, an empty list resolves with an empty result
\* even when the signal is already aborted, and a non-empty list with an
\* aborted signal rejects with the cancellation reason and starts no runner.
C36_EarlyExitOrder ==
    PoolCalled =>
        IF NoPositiveInteger(frame.concurrency)
        THEN /\ frame.pc = "rejected"
             /\ frame.caught[1].name = "RangeError"
             /\ frame.poolSize = 0
        ELSE IF frame.total = 0
        THEN /\ frame.pc = "resolved"
             /\ frame.value = Some(<< >>)
             /\ frame.poolSize = 0
        ELSE IF frame.signal.aborted
        THEN /\ frame.pc = "rejected"
             /\ frame.caught = Some(CancellationError(frame.signal.reason[1]))
             /\ frame.poolSize = 0
        ELSE /\ frame.pc = "running"
             /\ frame.poolSize > 0

\* an empty list and a signal that is already aborted: resolved, empty
C36_Witness ==
    /\ PoolCalled
    /\ frame.total = 0
    /\ frame.signal.aborted
    /\ frame.pc = "resolved"
    /\ frame.value = Some(<< >>)

\* the step rejects the pool
PoolRejects == phase = "running" /\ phase' = "rejected"

\* the step resumes runner r, whose worker has returned
ResumesHealthy(r) == runners[r].state = "returned" /\ runners'[r] # runners[r]

\* C37: a worker invocation that rejects fails its runner and rejects the
\* pool with the error of the first runner to fail; the rejection is final
\* and a failed runner takes no further step.  The other runners are not
\* stopped: a runner whose worker returned claims the next unclaimed item
\* and starts its worker, also after the pool has rejected, unless the
\* signal is aborted, in which case it fails without claiming.
C37_WorkerFailureDoesNotStopOthers ==
    [][/\ \A r \in DOMAIN runners :
            /\ (runners[r].state = "threw" /\ runners'[r] # runners[r]) =>
                 /\ runners'[r].state = "failed"
                 /\ runners'[r].error = runners[r].error
                 /\ phase' = "rejected"
                 /\ PoolRejects => thrown' = runners[r].error
                 /\ nextIndex' = nextIndex
            /\ runners[r].state = "failed" => runners'[r] = runners[r]
            /\ (ResumesHealthy(r) /\ ~signal.aborted /\ nextIndex < Total) =>
                 /\ nextIndex' = nextIndex + 1
                 /\ runners'[r].state = "fetching"
                 /\ runners'[r].index = nextIndex
                 /\ invoked'[nextIndex + 1] = 1
            /\ (ResumesHealthy(r) /\ signal.aborted) =>
                 /\ nextIndex' = nextIndex
                 /\ runners'[r].state = "failed"
       /\ phase = "rejected" => (phase' = "rejected" /\ thrown' = thrown)
      ]_vars

\* a pool rejected with the error of the worker that failed, no signal
\* aborted, the failed runner at rest and another runner at work on the last
\* item, which no runner had claimed at the start
C37_Witness ==
    /\ phase = "rejected"
    /\ thrown = Some(ProgressError)
    /\ ~signal.aborted
    /\ \E r \in DOMAIN runners : runners[r].state = "failed"
    /\ \E r \in DOMAIN runners :
         /\ runners[r].state = "fetching"
         /\ runners[r].index = Total - 1
         /\ runners[r].index >= Len(runners)

\* C38: when a call of analyze rejects, it is the unit's last: no later item
\* is sent to the analysis client, the result is rejected with that very
\* error, and it reports neither the analyzedItems count nor the relevant
\* posts found for the earlier items; the progress event says the same.
C38_AnalyzeFailureRejectsFeed ==
    frame # None =>
        \A j \in 1..Len(frame.answers) :
            frame.answers[j].kind = "rejected" =>
                /\ j = Len(frame.answers)
                /\ Len(ItemCalls) = j
                /\ frame.pc = "returned"
                /\ frame.result.status = "rejected"
                /\ frame.result.error = Some(frame.answers[j].error)
                /\ frame.result.relevantPosts = None
                /\ frame.result.analyzedItems = None
                /\ frame.progress[1].status = "rejected"
                /\ frame.progress[1].error = Some(frame.answers[j].error)

\* the second of three eligible items fails with an answer 400 after the
\* first was found relevant: the third is never sent and the post is lost
C38_Witness ==
    /\ frame # None
    /\ frame.pc = "returned"
    /\ frame.feed = RecentFeed
    /\ ItemCalls = << "first", "second" >>
    /\ Len(frame.relevantPosts) = 1
    /\ frame.answers[2].kind = "rejected"
    /\ frame.answers[2].error.name = "OllamaRequestError"
    /\ frame.result.status = "rejected"
    /\ frame.result.relevantPosts = None

\* the call of number j of the unit ended in a transient failure
EndedTransient(j) ==
    /\ frame.answers[j].failure # None
    /\ frame.answers[j].failure[1].name = "OllamaUnavailableError"
    /\ Transient(frame.answers[j].failure[1].cause)

\* C39: a call of analyze of the unit that ends in a transient failure (the
\* retries used up by network failures, timeouts, answers 5xx or 429)
\* resolves with the substitute verdict.  Its item is counted, it is not
\* among the relevant posts, the items after it are still sent to the
\* analysis client, and the unit ends fulfilled unless another call rejects.
C39_TransientFailureKeepsFeed ==
    frame # None =>
        \A j \in 1..Len(frame.answers) :
            EndedTransient(j) =>
                /\ frame.answers[j].kind = "resolved"
                /\ frame.answers[j].value = createFallbackAnalysis(frame.answers[j].failure[1])
                /\ frame.analyzedCount >= j
                /\ \A n \in 1..Len(frame.relevantPosts) :
                     frame.relevantPosts[n].title # ItemCalls[j]
                /\ j < Len(WorkerEligibleTitles) =>
                     /\ Len(ItemCalls) > j
                     /\ ItemCalls[j + 1] = WorkerEligibleTitles[j + 1]
                /\ (/\ frame.pc = "returned"
                    /\ \A i \in 1..Len(frame.answers) : frame.answers[i].kind = "resolved") =>
                       /\ frame.result.status = "fulfilled"
                       /\ frame.result.analyzedItems = Some(Len(frame.answers))

\* a fulfilled unit whose second call ended in a timeout at every attempt:
\* three items counted, the first and the third reported as relevant
C39_Witness ==
    /\ ItemsFulfilled
    /\ Len(frame.answers) = 3
    /\ EndedTransient(2)
    /\ frame.answers[2].failure[1].cause.name = "OllamaTimeoutError"
    /\ frame.result.analyzedItems = Some(3)
    /\ frame.result.relevantPosts # None
    /\ Len(frame.result.relevantPosts[1]) = 2

\* the failure came with a response of the server
FromResponse(error) == error.name = "OllamaRequestError"

\* C40: while the signal of the call is aborted the client starts no request
\* attempt.  A call that has not yet made a request, or that sleeps before
\* its next attempt, rejects at its next step with the abort reason; a
\* request in flight is the call's last, the call settles when it ends, and
\* with the abort reason when the request ended without a response or with a
\* failure the client would otherwise have retried.
C40_AbortStopsRetrying ==
    [][(frame # None /\ frame.hasSignal /\ frame.aborted) =>
         /\ frame'.requests = frame.requests
         /\ frame'.pc \in {"resolved", "rejected"}
         /\ (frame.pc = "sleeping" \/ (frame.pc = "idle" /\ frame.description # "  ")) =>
              /\ frame'.pc = "rejected"
              /\ frame'.caught = Some(RequestAbortReason)
         /\ (frame.pc = "requesting" /\ Len(frame'.failures) > Len(frame.failures)) =>
              LET failure == frame'.failures[Len(frame'.failures)]
              IN  /\ ~FromResponse(failure) =>
                       /\ failure = RequestAbortReason
                       /\ frame'.pc = "rejected"
                       /\ frame'.caught = Some(RequestAbortReason)
                  /\ (Transient(failure) /\ frame.attempt < frame.maxRetries) =>
                       /\ frame'.pc = "rejected"
                       /\ frame'.caught = Some(RequestAbortReason)
      ]_vars

\* a call rejected with the abort reason after one failed attempt, with two
\* retries left, graceful degradation notwithstanding
C40_Witness ==
    /\ AnalyzeSettled
    /\ frame.aborted
    /\ frame.gracefulDegradation
    /\ frame.pc = "rejected"
    /\ frame.caught = Some(RequestAbortReason)
    /\ frame.maxRetries = 2
    /\ frame.requests = 1
    /\ Len(frame.failures) = 1
    /\ Transient(frame.failures[1])

====
